---- MODULE Spec2Model ----
(***************************************************************************)
(* State-machine model of the simple-swap client: the liquidity form       *)
(* (useProvideLiquidity + useSimulateLiquidity), the swap form             *)
(* (useSimpleSwap) and swap status polling (useSwapStatusQuery).           *)
(*                                                                         *)
(* JavaScript strings are modelled as sequences of one-character strings,  *)
(* so that split / padEnd / slice / BigInt parsing are computed as the     *)
(* code computes them.                                                     *)
(***************************************************************************)
EXTENDS Integers, Sequences, FiniteSets, TLC

(***************************************************************************)
(* Bounds of the model                                                     *)
(***************************************************************************)
\* number of clock ticks in one 500 ms debounce period
DelayTicks == 2
\* number of query-cache entries kept by the query client
MaxCache == 2
\* number of swap simulations that can be in flight at once
MaxInFlight == 2
\* number of user actions in one session after the first selection of each
\* asset: amount edits, asset changes, mode switches, wallet changes
MaxEvents == 3
\* polling rounds observed after the status timeout has expired
ExtraPolls == 2
\* length of the decimal strings handed to the conversion
MaxLen == 4
\* largest decimal count handed to the conversion
MaxDecimals == 2

(***************************************************************************)
(* JavaScript string helpers                                               *)
(***************************************************************************)
Digits == <<"0", "1", "2", "3", "4", "5", "6", "7", "8", "9">>

DigitSet == {Digits[i] : i \in 1..10}

DigitVal(c) == (CHOOSE i \in 1..10 : Digits[i] = c) - 1

\* JS truthiness of a string: the empty string is falsy
Truthy(s) == s # <<>>

RECURSIVE Pow10(_)
Pow10(n) == IF n = 0 THEN 1 ELSE 10 * Pow10(n - 1)

\* index of the first "." in s, or 0
DotIndex(s) ==
    IF \E i \in 1..Len(s) : s[i] = "."
    THEN CHOOSE i \in 1..Len(s) : s[i] = "." /\ \A j \in 1..(i - 1) : s[j] # "."
    ELSE 0

\* String.prototype.split("."), first two pieces only; a missing piece is
\* reported by has = FALSE (JS undefined)
SplitInteger(s) ==
    IF DotIndex(s) = 0 THEN s ELSE SubSeq(s, 1, DotIndex(s) - 1)

HasFraction(s) == DotIndex(s) # 0

SplitFraction(s) ==
    LET rest == SubSeq(s, DotIndex(s) + 1, Len(s))
    IN IF DotIndex(rest) = 0 THEN rest ELSE SubSeq(rest, 1, DotIndex(rest) - 1)

\* String.prototype.padEnd(n, "0")
PadEnd(s, n) == IF Len(s) >= n THEN s ELSE s \o [i \in 1..(n - Len(s)) |-> "0"]

\* String.prototype.padStart(n, "0")
PadStart(s, n) == IF Len(s) >= n THEN s ELSE [i \in 1..(n - Len(s)) |-> "0"] \o s

\* String.prototype.slice(0, n)
SliceTo(s, n) == SubSeq(s, 1, IF n < Len(s) THEN n ELSE Len(s))

\* String.prototype.replace(/0+$/, "")
RECURSIVE StripTrailingZeros(_)
StripTrailingZeros(s) ==
    IF s # <<>> /\ s[Len(s)] = "0" THEN StripTrailingZeros(SubSeq(s, 1, Len(s) - 1)) ELSE s

RECURSIVE DigitsToNat(_)
DigitsToNat(s) ==
    IF s = <<>> THEN 0 ELSE 10 * DigitsToNat(SubSeq(s, 1, Len(s) - 1)) + DigitVal(s[Len(s)])

\* BigInt(string): ok = FALSE stands for the SyntaxError BigInt throws
BigIntOf(s) ==
    LET neg == s # <<>> /\ s[1] = "-"
        body == IF neg THEN Tail(s) ELSE s
    IN IF (\A i \in 1..Len(body) : body[i] \in DigitSet) /\ (neg => body # <<>>)
       THEN [ok |-> TRUE, v |-> IF neg THEN 0 - DigitsToNat(body) ELSE DigitsToNat(body)]
       ELSE [ok |-> FALSE, v |-> 0]

RECURSIVE NatToStr(_)
NatToStr(n) == IF n < 10 THEN <<Digits[n + 1]>> ELSE NatToStr(n \div 10) \o <<Digits[(n % 10) + 1]>>

\* BigInt.prototype.toString()
BigIntToString(n) == IF n < 0 THEN <<"-">> \o NatToStr(0 - n) ELSE NatToStr(n)

\* BigInt division and remainder truncate toward zero
TruncDiv(a, b) == IF a < 0 THEN 0 - ((0 - a) \div b) ELSE a \div b

TruncRem(a, b) == IF a < 0 THEN 0 - ((0 - a) % b) ELSE a % b

(***************************************************************************)
(* lib/utils.ts                                                            *)
(***************************************************************************)
\* a conversion that pads the fraction but does not cut it to decimals digits
floatToBigNumberUncut(value, decimals) ==
    LET integer0 == SplitInteger(value)
        fraction0 == IF HasFraction(value) THEN SplitFraction(value) ELSE <<"0">>
        negative == integer0 # <<>> /\ integer0[1] = "-"
        integer == IF negative THEN Tail(integer0) ELSE integer0
        fraction == PadEnd(fraction0, decimals)
    IN BigIntOf((IF negative THEN <<"-">> ELSE <<>>) \o integer \o fraction)

\* floatToBigNumber(value, decimals); ok = FALSE when BigInt() throws
floatToBigNumber(value, decimals) ==
    LET integer0 == SplitInteger(value)
        fraction0 == IF HasFraction(value) THEN SplitFraction(value) ELSE <<"0">>
        negative == integer0 # <<>> /\ integer0[1] = "-"
        integer == IF negative THEN Tail(integer0) ELSE integer0
        fraction == SliceTo(PadEnd(fraction0, decimals), decimals)
    IN BigIntOf((IF negative THEN <<"-">> ELSE <<>>) \o integer \o fraction)

\* formatAmount(amount, decimals), amount a string of units
formatAmount(amount, decimals) ==
    IF ~Truthy(amount) THEN <<"0">>
    ELSE LET value == BigIntOf(amount)
             divisor == Pow10(decimals)
             integerPart == TruncDiv(value.v, divisor)
             fractionalPart == TruncRem(value.v, divisor)
             formattedFraction ==
                 StripTrailingZeros(PadStart(BigIntToString(fractionalPart), decimals))
         IN IF ~value.ok THEN amount
            ELSE IF Truthy(formattedFraction)
                 THEN BigIntToString(integerPart) \o <<".">> \o formattedFraction
                 ELSE BigIntToString(integerPart)

(***************************************************************************)
(* Input domains                                                           *)
(***************************************************************************)
\* JS null / undefined for a side, a token, a pool address, a units string
Null == "null"

NoToken == "none"

NoPool == "undefined"

Undef == <<"undefined">>

\* truthiness of an optional units string
TruthyU(u) == u # Undef /\ u # <<>>

Tokens == {"T1", "T2"}

\* meta.decimals of each asset
TokenDecimals == [T1 |-> 1, T2 |-> 2]

Pools == {"P1"}

Sides == {"A", "B"}

ProvisionTypes == {"Initial", "Balanced", "Arbitrary"}

\* amounts the user types
UserAmounts == {<<>>, <<"0">>, <<"1">>}

Wallets == {"W1"}

NoError ==
    [present |-> FALSE, hasData |-> FALSE, shape |-> "none", addr |-> "", listed |-> <<>>]

\* an Error thrown locally by the query function: no 'data' property
LocalError ==
    [present |-> TRUE, hasData |-> FALSE, shape |-> "local", addr |-> "", listed |-> <<>>]

\* errors the remote service answers with: 'data' is the message text;
\* shape "standard" is a text "... already exists: <addr>"
ServiceErrors ==
    {[present |-> TRUE, hasData |-> TRUE, shape |-> "standard", addr |-> p,
      listed |-> <<>>] : p \in Pools}
    \cup {[present |-> TRUE, hasData |-> TRUE, shape |-> "other", addr |-> "",
           listed |-> <<>>]}

\* the text between the brackets of a message "... already exists for selected
\* type of router: [...]" as split(",") cuts it: "", "P1", " P1 ,P2", " ,P1"
AlternateListings ==
    {<< <<>> >>, << <<"P1">> >>, << <<" ", "P1", " ">>, <<"P2">> >>,
     << <<" ">>, <<"P1">> >>}

\* errors of the remote service whose message has the alternate shape
AlternateErrors ==
    {[present |-> TRUE, hasData |-> TRUE, shape |-> "alternate", addr |-> "",
      listed |-> l] : l \in AlternateListings}

NoCall ==
    [provisionType |-> "none", poolAddress |-> NoPool, walletAddress |-> "",
     tokenA |-> NoToken, tokenB |-> NoToken, tokenAUnits |-> Undef, tokenBUnits |-> Undef]

\* no data yet; a LiquidityProvisionSimulation names the request it answers
NoData ==
    [present |-> FALSE, request |-> NoCall, tokenAUnits |-> <<>>, tokenBUnits |-> <<>>,
     minLpUnits |-> <<>>]

\* quotes of the remote simulation service
Results ==
    {[tokenAUnits |-> <<"1", "0">>, tokenBUnits |-> <<"2", "5">>, minLpUnits |-> <<"7">>]}

\* the LiquidityProvisionSimulation answering the request call with quote r:
\* the units the request gives are returned, the others are quoted
Answer(call, r) ==
    [present |-> TRUE, request |-> call,
     tokenAUnits |-> IF TruthyU(call.tokenAUnits) THEN call.tokenAUnits ELSE r.tokenAUnits,
     tokenBUnits |-> IF TruthyU(call.tokenBUnits) THEN call.tokenBUnits ELSE r.tokenBUnits,
     minLpUnits |-> r.minLpUnits]

(***************************************************************************)
(* State                                                                   *)
(***************************************************************************)
VARIABLES
    route,      \* the mounted page: "swap" or "liquidity" (App routes)
    wallet,     \* useTonAddress(): "" when no wallet is connected
    formData,   \* useProvideLiquidity: LiquidityFormData
    deb,        \* useSimulateLiquidity: debounced amountA, amountB, activeSide
    timer,      \* pending debounce timeouts: ticks left, -1 when none
    sinceEdit,  \* ticks since the user last edited an amount or the active side
    cache,      \* query cache of the "simulateLiquidity" queries
    fetchOrder, \* keys of the liquidity fetches in flight, in the order issued
    overtaken,  \* keys in flight that a fetch issued later has already answered
    swap,       \* useSimpleSwap: SwapState
    swDeps,     \* dependencies of the last run of the simulation effect
    swInFlight, \* simulateSwap calls in flight, with their isCancelled flag
    poll,       \* useSwapStatusQuery: the polling loop of the query function
    lateArrival, \* an answer to a superseded request has arrived after a newer one
    lastTyped,  \* the amount field the user typed into last, while it keeps that text
    derived,    \* an amount written by reconciliation is shown and the user has not acted since
    nEvents,    \* number of user actions so far
    conv,       \* a conversion of lib/utils under way: input, units, text
    swapTx,     \* useSimpleSwap: handleSwap under way, transactionDetails
    provide,    \* useProvideLiquidity: handleProvide under way, error
    assets      \* useSimpleSwap: state.allAssets and the fetchAssets calls in flight

lqVars == <<formData, deb, timer, sinceEdit, cache, fetchOrder, overtaken>>

swVars == <<swap, swDeps, swInFlight>>

vars ==
    <<route, wallet, formData, deb, timer, sinceEdit, cache, fetchOrder, overtaken,
      swap, swDeps, swInFlight, poll, lateArrival, lastTyped, derived, nEvents, conv,
      swapTx, provide, assets>>

\* state outside the forms and the status polling
auxVars == <<conv, swapTx, provide, assets>>

\* state.allAssets after mount and the fetchAssets call the loadAssets effect
\* has started: the swap page fetches for a connected wallet
MountAssets(r, w) ==
    [allAssets |-> {}, fetching |-> IF r = "swap" /\ w # "" THEN {w} ELSE {}]

\* useState<LiquidityFormData>({...}) initial value
InitialFormData ==
    [tokenA |-> NoToken, tokenB |-> NoToken, amountA |-> <<>>, amountB |-> <<>>,
     firstChangedSide |-> Null, activeSide |-> Null, provisionType |-> "Initial",
     poolAddress |-> NoPool, provisionHistory |-> <<>>]

(***************************************************************************)
(* hooks/useSimulateLiquidity.ts                                           *)
(***************************************************************************)
\* formData.tokenX?.meta?.decimals ?? 9
Decimals(t) == IF t = NoToken THEN 9 ELSE TokenDecimals[t]

\* the queryKey of useQuery
QueryKey(w, f, d) ==
    [walletAddress |-> w, tokenA |-> f.tokenA, tokenB |-> f.tokenB,
     debouncedAmountA |-> d.A, debouncedAmountB |-> d.B,
     provisionType |-> f.provisionType, poolAddress |-> f.poolAddress,
     debouncedActiveSide |-> d.S]

isEnabled(k) ==
    /\ k.walletAddress # ""
    /\ k.tokenA # NoToken
    /\ k.tokenB # NoToken
    /\ IF k.provisionType = "Balanced"
       THEN Truthy(k.debouncedAmountA) \/ Truthy(k.debouncedAmountB)
       ELSE Truthy(k.debouncedAmountA) /\ Truthy(k.debouncedAmountB)

\* floatToBigNumber(amount, decimals).toString()
UnitsOf(amount, decimals) == BigIntToString(floatToBigNumber(amount, decimals).v)

\* lib/liquidity.ts simulateLiquidityProvision: what reaches
\* stonApiClient.simulateLiquidityProvision, or a locally thrown Error
simulateLiquidityProvision(p) ==
    IF p.provisionType = "Initial"
    THEN IF ~TruthyU(p.tokenAUnits) \/ ~TruthyU(p.tokenBUnits)
         THEN [kind |-> "throw", call |-> NoCall]
         ELSE [kind |-> "call", call |-> [p EXCEPT !.poolAddress = NoPool]]
    ELSE IF p.provisionType = "Balanced"
    THEN IF p.poolAddress = NoPool
         THEN [kind |-> "throw", call |-> NoCall]
         ELSE [kind |-> "call",
               call |-> IF TruthyU(p.tokenAUnits)
                        THEN [p EXCEPT !.tokenBUnits = Undef]
                        ELSE [p EXCEPT !.tokenAUnits = Undef,
                                       !.tokenBUnits = IF TruthyU(p.tokenBUnits)
                                                       THEN p.tokenBUnits ELSE <<"1">>]]
    ELSE [kind |-> "throw", call |-> NoCall]

\* a request handed to the service as it is
AsCall(p) == [kind |-> "call", call |-> p]

\* a query function that does not look at poolAddress before it calls the service
queryFnWithoutPoolCheck(k) ==
    LET decimalsA == Decimals(k.tokenA)
        decimalsB == Decimals(k.tokenB)
        base == [provisionType |-> k.provisionType, poolAddress |-> k.poolAddress,
                 walletAddress |-> k.walletAddress, tokenA |-> k.tokenA,
                 tokenB |-> k.tokenB, tokenAUnits |-> Undef, tokenBUnits |-> Undef]
        sideA == (k.debouncedActiveSide = "A" /\ Truthy(k.debouncedAmountA))
                 \/ (~(k.debouncedActiveSide = "B" /\ Truthy(k.debouncedAmountB))
                     /\ Truthy(k.debouncedAmountA))
        sideB == ~sideA /\ Truthy(k.debouncedAmountB)
    IN IF ~isEnabled(k) THEN [kind |-> "null", call |-> NoCall]
       ELSE IF k.provisionType = "Balanced"
       THEN IF sideA /\ ~floatToBigNumber(k.debouncedAmountA, decimalsA).ok
            THEN [kind |-> "throw", call |-> NoCall]
            ELSE IF sideB /\ ~floatToBigNumber(k.debouncedAmountB, decimalsB).ok
            THEN [kind |-> "throw", call |-> NoCall]
            ELSE IF ~sideA /\ ~sideB THEN [kind |-> "null", call |-> NoCall]
            ELSE AsCall(
                     [base EXCEPT
                        !.tokenAUnits = IF sideA THEN UnitsOf(k.debouncedAmountA, decimalsA)
                                        ELSE Undef,
                        !.tokenBUnits = IF sideB THEN UnitsOf(k.debouncedAmountB, decimalsB)
                                        ELSE Undef])
       ELSE IF ~Truthy(k.debouncedAmountA) \/ ~Truthy(k.debouncedAmountB)
            THEN [kind |-> "null", call |-> NoCall]
            ELSE IF ~floatToBigNumber(k.debouncedAmountA, decimalsA).ok
                    \/ ~floatToBigNumber(k.debouncedAmountB, decimalsB).ok
            THEN [kind |-> "throw", call |-> NoCall]
            ELSE IF k.provisionType = "Initial"
            THEN AsCall(
                     [base EXCEPT !.poolAddress = NoPool,
                                  !.tokenAUnits = UnitsOf(k.debouncedAmountA, decimalsA),
                                  !.tokenBUnits = UnitsOf(k.debouncedAmountB, decimalsB)])
            ELSE AsCall(
                     [base EXCEPT !.tokenAUnits = UnitsOf(k.debouncedAmountA, decimalsA),
                                  !.tokenBUnits = UnitsOf(k.debouncedAmountB, decimalsB)])

\* the queryFn of useQuery, run for key k
queryFn(k) ==
    LET decimalsA == Decimals(k.tokenA)
        decimalsB == Decimals(k.tokenB)
        base == [provisionType |-> k.provisionType, poolAddress |-> k.poolAddress,
                 walletAddress |-> k.walletAddress, tokenA |-> k.tokenA,
                 tokenB |-> k.tokenB, tokenAUnits |-> Undef, tokenBUnits |-> Undef]
        sideA == (k.debouncedActiveSide = "A" /\ Truthy(k.debouncedAmountA))
                 \/ (~(k.debouncedActiveSide = "B" /\ Truthy(k.debouncedAmountB))
                     /\ Truthy(k.debouncedAmountA))
        sideB == ~sideA /\ Truthy(k.debouncedAmountB)
    IN IF ~isEnabled(k) THEN [kind |-> "null", call |-> NoCall]
       ELSE IF k.provisionType = "Balanced"
       THEN IF sideA /\ ~floatToBigNumber(k.debouncedAmountA, decimalsA).ok
            THEN [kind |-> "throw", call |-> NoCall]
            ELSE IF sideB /\ ~floatToBigNumber(k.debouncedAmountB, decimalsB).ok
            THEN [kind |-> "throw", call |-> NoCall]
            ELSE IF k.poolAddress = NoPool THEN [kind |-> "throw", call |-> NoCall]
            ELSE IF ~sideA /\ ~sideB THEN [kind |-> "null", call |-> NoCall]
            ELSE simulateLiquidityProvision(
                     [base EXCEPT
                        !.tokenAUnits = IF sideA THEN UnitsOf(k.debouncedAmountA, decimalsA)
                                        ELSE Undef,
                        !.tokenBUnits = IF sideB THEN UnitsOf(k.debouncedAmountB, decimalsB)
                                        ELSE Undef])
       ELSE IF ~Truthy(k.debouncedAmountA) \/ ~Truthy(k.debouncedAmountB)
            THEN [kind |-> "null", call |-> NoCall]
            ELSE IF ~floatToBigNumber(k.debouncedAmountA, decimalsA).ok
                    \/ ~floatToBigNumber(k.debouncedAmountB, decimalsB).ok
            THEN [kind |-> "throw", call |-> NoCall]
            ELSE IF k.provisionType = "Initial"
            THEN simulateLiquidityProvision(
                     [base EXCEPT !.poolAddress = NoPool,
                                  !.tokenAUnits = UnitsOf(k.debouncedAmountA, decimalsA),
                                  !.tokenBUnits = UnitsOf(k.debouncedAmountB, decimalsB)])
            ELSE IF k.poolAddress = NoPool THEN [kind |-> "throw", call |-> NoCall]
            ELSE simulateLiquidityProvision(
                     [base EXCEPT !.tokenAUnits = UnitsOf(k.debouncedAmountA, decimalsA),
                                  !.tokenBUnits = UnitsOf(k.debouncedAmountB, decimalsB)])

\* a reconciliation that formats each side at the other side's decimals
getUpdatedBalancedAmountsOtherDecimals(provisionType, activeSide, currentA, currentB, decimalsA, decimalsB, simulation) ==
    IF ~simulation.present THEN [amountA |-> currentA, amountB |-> currentB]
    ELSE IF provisionType # "Balanced" THEN [amountA |-> currentA, amountB |-> currentB]
    ELSE IF activeSide = "A" /\ Truthy(simulation.tokenBUnits)
    THEN [amountA |-> currentA, amountB |-> formatAmount(simulation.tokenBUnits, decimalsA)]
    ELSE IF activeSide = "B" /\ Truthy(simulation.tokenAUnits)
    THEN [amountA |-> formatAmount(simulation.tokenAUnits, decimalsB), amountB |-> currentB]
    ELSE [amountA |-> currentA, amountB |-> currentB]

\* a reconciliation that does not look at the provision type
getUpdatedBalancedAmountsAnyMode(provisionType, activeSide, currentA, currentB, decimalsA, decimalsB, simulation) ==
    IF ~simulation.present THEN [amountA |-> currentA, amountB |-> currentB]
    ELSE IF activeSide = "A" /\ Truthy(simulation.tokenBUnits)
    THEN [amountA |-> currentA, amountB |-> formatAmount(simulation.tokenBUnits, decimalsB)]
    ELSE IF activeSide = "B" /\ Truthy(simulation.tokenAUnits)
    THEN [amountA |-> formatAmount(simulation.tokenAUnits, decimalsA), amountB |-> currentB]
    ELSE [amountA |-> currentA, amountB |-> currentB]

getUpdatedBalancedAmounts(provisionType, activeSide, currentA, currentB, decimalsA, decimalsB, simulation) ==
    IF ~simulation.present THEN [amountA |-> currentA, amountB |-> currentB]
    ELSE IF provisionType # "Balanced" THEN [amountA |-> currentA, amountB |-> currentB]
    ELSE IF activeSide = "A" /\ Truthy(simulation.tokenBUnits)
    THEN [amountA |-> currentA, amountB |-> formatAmount(simulation.tokenBUnits, decimalsB)]
    ELSE IF activeSide = "B" /\ Truthy(simulation.tokenAUnits)
    THEN [amountA |-> formatAmount(simulation.tokenAUnits, decimalsA), amountB |-> currentB]
    ELSE [amountA |-> currentA, amountB |-> currentB]

(***************************************************************************)
(* The query client (useQuery): one cache entry per queryKey.  The data    *)
(* and the error the hook returns are those of the entry of the current    *)
(* key; a fetch whose key is no longer current writes into its own entry.  *)
(***************************************************************************)
HasEntry(c, k) == \E e \in c : e.key = k

EntryOf(c, k) ==
    IF HasEntry(c, k) THEN CHOOSE e \in c : e.key = k
    ELSE [key |-> k, fetching |-> FALSE, call |-> NoCall, data |-> NoData, error |-> NoError]

\* data: lpSimulation
lpSimulationOf(c, k) == EntryOf(c, k).data

\* error: simulationError
simulationErrorOf(c, k) == EntryOf(c, k).error

\* the observer fetches when the key is new or the query becomes enabled
\* (staleTime 0), unless a fetch for that key is already in flight
NeedsFetch(c, k0, k1) ==
    /\ isEnabled(k1)
    /\ k1 # k0 \/ ~isEnabled(k0)
    /\ ~EntryOf(c, k1).fetching

\* start of a fetch: run queryFn; a local throw or a null settles at once,
\* a service call stays in flight (retry: false)
StartFetch(c, k) ==
    LET out == queryFn(k)
        old == EntryOf(c, k)
        rest == c \ {old}
    IN IF out.kind = "call"
       THEN rest \cup {[old EXCEPT !.fetching = TRUE, !.call = out.call,
                                   !.error = IF old.data.present THEN old.error ELSE NoError]}
       ELSE IF out.kind = "throw"
       THEN rest \cup {[old EXCEPT !.error = LocalError, !.call = NoCall]}
       ELSE rest \cup {[old EXCEPT !.data = NoData, !.error = NoError, !.call = NoCall]}

\* the cache after a render that moves the hook inputs from k0 to k1
AfterRender(c, k0, k1) == IF NeedsFetch(c, k0, k1) THEN StartFetch(c, k1) ELSE c

\* the cache holds at most MaxCache entries
CacheHasRoom(c, k0, k1) ==
    (NeedsFetch(c, k0, k1) /\ ~HasEntry(c, k1)) => Cardinality(c) < MaxCache

(***************************************************************************)
(* useDebounce(value, 500): a change of the value restarts the timeout     *)
(***************************************************************************)
Idle == 0 - 1

Restart(t, f0, f1) ==
    [A |-> IF f1.amountA # f0.amountA THEN DelayTicks ELSE t.A,
     B |-> IF f1.amountB # f0.amountB THEN DelayTicks ELSE t.B,
     S |-> IF f1.activeSide # f0.activeSide THEN DelayTicks ELSE t.S]

(***************************************************************************)
(* hooks/useProvideLiquidity: effects                                      *)
(***************************************************************************)
CurKey == QueryKey(wallet, formData, deb)

lpSimulation == lpSimulationOf(cache, CurKey)

simulationError == simulationErrorOf(cache, CurKey)

\* the amounts the auto-update effect computes
UpdatedAmounts ==
    getUpdatedBalancedAmounts(formData.provisionType, formData.activeSide,
                              formData.amountA, formData.amountB,
                              Decimals(formData.tokenA), Decimals(formData.tokenB),
                              lpSimulation)

AutoUpdatePending ==
    /\ lpSimulation.present
    /\ UpdatedAmounts.amountA # formData.amountA \/ UpdatedAmounts.amountB # formData.amountB

RECURSIVE trimStart(_)
trimStart(s) == IF s # <<>> /\ Head(s) = " " THEN trimStart(Tail(s)) ELSE s

RECURSIVE trimEnd(_)
trimEnd(s) ==
    IF s # <<>> /\ s[Len(s)] = " " THEN trimEnd(SubSeq(s, 1, Len(s) - 1)) ELSE s

\* String.prototype.trim of a listed item; an address is one element
trim(s) == LET t == trimEnd(trimStart(s)) IN IF t = <<>> THEN "" ELSE t[1]

\* a detection that takes the last listed address of the alternate shape
PoolFromErrorLastListed(err) ==
    IF ~(err.present /\ err.hasData) THEN ""
    ELSE IF err.shape = "standard" THEN err.addr
    ELSE IF err.shape = "alternate" THEN trim(err.listed[Len(err.listed)])
    ELSE ""

\* standardMatch?.[1] || (alternateMatch ? alternateMatch[1].split(",")[0].trim()
\* : null): the pool address taken from the message, "" if none
PoolFromError(err) ==
    IF ~(err.present /\ err.hasData) THEN ""
    ELSE IF err.shape = "standard" THEN err.addr
    ELSE IF err.shape = "alternate" THEN trim(err.listed[1])
    ELSE ""

\* an effect that does not return when the message yields no pool address
AlreadyExistsPendingAnyMessage ==
    /\ simulationError.present
    /\ formData.provisionType = "Initial"

AlreadyExistsPending ==
    /\ simulationError.present
    /\ formData.provisionType = "Initial"
    /\ PoolFromError(simulationError) # ""

\* an effect scheduled by the last render has not run yet
EffectPending == AutoUpdatePending \/ AlreadyExistsPending

Fields == {"A", "B", "S"}

FieldValue(f, fld) ==
    IF fld = "A" THEN f.amountA ELSE IF fld = "B" THEN f.amountB ELSE f.activeSide

\* the timeouts that are due now
Expired == {fld \in Fields : timer[fld] = 0}

\* nothing is scheduled to run right now: no effect and no due timeout
Settled == ~EffectPending /\ Expired = {}

Includes(seq, x) == \E i \in 1..Len(seq) : seq[i] = x

\* a render with the hook inputs k1: the observer starts a fetch if needed
Rerender(k1) ==
    /\ CacheHasRoom(cache, CurKey, k1)
    /\ cache' = AfterRender(cache, CurKey, k1)
    /\ fetchOrder' = IF NeedsFetch(cache, CurKey, k1) /\ queryFn(k1).kind = "call"
                     THEN Append(fetchOrder, k1) ELSE fetchOrder
    /\ UNCHANGED <<overtaken, lateArrival>>

\* the swap page and the status polling are not mounted
LiquidityOnly == route = "liquidity" /\ UNCHANGED <<route, swap, swDeps, swInFlight, poll, auxVars>>

\* apply a new formData: restart the debounce timeouts, re-run the query
Commit(f1) ==
    /\ formData' = f1
    /\ timer' = Restart(timer, formData, f1)
    /\ Rerender(QueryKey(wallet, f1, deb))

\* Auto-update other side for Balanced mode (useEffect)
AutoUpdate ==
    /\ LiquidityOnly
    /\ AutoUpdatePending
    /\ Commit([formData EXCEPT !.amountA = UpdatedAmounts.amountA,
                               !.amountB = UpdatedAmounts.amountB])
    /\ derived' = TRUE
    /\ UNCHANGED <<wallet, deb, sinceEdit, lastTyped, nEvents>>

\* an updater that moves the form to Arbitrary mode
alreadyExistsStateToArbitrary(prev, poolAddress) ==
    [prev EXCEPT
       !.provisionType = "Arbitrary",
       !.poolAddress = poolAddress,
       !.provisionHistory = IF Includes(prev.provisionHistory, "Arbitrary")
                            THEN prev.provisionHistory
                            ELSE Append(prev.provisionHistory, "Arbitrary"),
       !.activeSide = IF prev.firstChangedSide # Null THEN prev.firstChangedSide
                      ELSE IF Truthy(prev.amountA) THEN "A"
                      ELSE IF Truthy(prev.amountB) THEN "B" ELSE Null]

\* an updater that infers the active side from the amounts alone
alreadyExistsStateFromAmounts(prev, poolAddress) ==
    [prev EXCEPT
       !.provisionType = "Balanced",
       !.poolAddress = poolAddress,
       !.provisionHistory = IF Includes(prev.provisionHistory, "Balanced")
                            THEN prev.provisionHistory
                            ELSE Append(prev.provisionHistory, "Balanced"),
       !.activeSide = IF Truthy(prev.amountA) THEN "A"
                      ELSE IF Truthy(prev.amountB) THEN "B" ELSE Null]

\* the setFormData updater of the already-exists effect
alreadyExistsState(prev, poolAddress) ==
    [prev EXCEPT
       !.provisionType = "Balanced",
       !.poolAddress = poolAddress,
       !.provisionHistory = IF Includes(prev.provisionHistory, "Balanced")
                            THEN prev.provisionHistory
                            ELSE Append(prev.provisionHistory, "Balanced"),
       !.activeSide = IF prev.firstChangedSide # Null THEN prev.firstChangedSide
                      ELSE IF Truthy(prev.amountA) THEN "A"
                      ELSE IF Truthy(prev.amountB) THEN "B" ELSE Null]

\* Handle "already exists" error for Initial mode (useEffect)
AlreadyExists ==
    /\ LiquidityOnly
    /\ AlreadyExistsPending
    /\ Commit(alreadyExistsState(formData, PoolFromError(simulationError)))
    /\ UNCHANGED <<wallet, deb, sinceEdit, lastTyped, derived, nEvents>>

(***************************************************************************)
(* hooks/useProvideLiquidity: handlers                                     *)
(***************************************************************************)
\* one more user action within the session
UserEvent == nEvents < MaxEvents /\ nEvents' = nEvents + 1

\* ProvideLiquidity renders the inputs only while a wallet is connected
FormShown == route = "liquidity" /\ wallet # ""

handleTokenChangeState(prev, side, asset) ==
    LET oldAsset == IF side = "A" THEN prev.tokenA ELSE prev.tokenB
        newState == IF side = "A"
                    THEN [prev EXCEPT !.tokenA = asset, !.amountA = <<>>]
                    ELSE [prev EXCEPT !.tokenB = asset, !.amountB = <<>>]
    IN IF oldAsset # NoToken /\ asset # NoToken /\ oldAsset # asset
       THEN [newState EXCEPT !.provisionType = "Initial", !.activeSide = Null,
                             !.firstChangedSide = Null, !.amountA = <<>>,
                             !.amountB = <<>>, !.poolAddress = NoPool,
                             !.provisionHistory = <<>>]
       ELSE newState

handleTokenChange(side, asset) ==
    /\ FormShown
    /\ LiquidityOnly
    /\ Settled
    /\ asset # (IF side = "A" THEN formData.tokenA ELSE formData.tokenB)
    /\ Commit(handleTokenChangeState(formData, side, asset))
    /\ IF (IF side = "A" THEN formData.tokenA ELSE formData.tokenB) = NoToken
       THEN UNCHANGED nEvents ELSE UserEvent
    /\ derived' = FALSE
    /\ lastTyped' = IF handleTokenChangeState(formData, side, asset).amountA = <<>>
                       /\ handleTokenChangeState(formData, side, asset).amountB = <<>>
                    THEN Null
                    ELSE IF lastTyped = side THEN Null ELSE lastTyped
    /\ UNCHANGED <<wallet, deb, sinceEdit>>

\* an updater that records the side of every edit as the first changed side
\* and makes it the active side in every mode
handleAmountChangeStateEveryEdit(prev, side, amount) ==
    LET withAmount == IF side = "A" THEN [prev EXCEPT !.amountA = amount]
                      ELSE [prev EXCEPT !.amountB = amount]
    IN [withAmount EXCEPT !.firstChangedSide = side, !.activeSide = side]

handleAmountChangeState(prev, side, amount) ==
    LET firstChange == IF prev.firstChangedSide = Null /\ Truthy(amount)
                       THEN side ELSE prev.firstChangedSide
        nextActiveSide == IF prev.provisionType = "Balanced" THEN side ELSE prev.activeSide
        withAmount == IF side = "A" THEN [prev EXCEPT !.amountA = amount]
                      ELSE [prev EXCEPT !.amountB = amount]
    IN [withAmount EXCEPT !.firstChangedSide = firstChange, !.activeSide = nextActiveSide]

handleAmountChange(side, amount) ==
    /\ FormShown
    /\ LiquidityOnly
    /\ Settled
    /\ amount # (IF side = "A" THEN formData.amountA ELSE formData.amountB)
    /\ Commit(handleAmountChangeState(formData, side, amount))
    /\ sinceEdit' = 0
    /\ lastTyped' = side
    /\ derived' = FALSE
    /\ UserEvent
    /\ UNCHANGED <<wallet, deb>>

\* an updater that also discards the amount pair
setProvisionTypeStateClearingAmounts(prev, type) ==
    [prev EXCEPT !.provisionType = type,
                 !.provisionHistory = IF Includes(prev.provisionHistory, type)
                                      THEN prev.provisionHistory
                                      ELSE Append(prev.provisionHistory, type),
                 !.amountA = <<>>, !.amountB = <<>>]

setProvisionTypeState(prev, type) ==
    [prev EXCEPT !.provisionType = type,
                 !.provisionHistory = IF Includes(prev.provisionHistory, type)
                                      THEN prev.provisionHistory
                                      ELSE Append(prev.provisionHistory, type)]

setProvisionType(type) ==
    /\ FormShown
    /\ LiquidityOnly
    /\ Settled
    /\ Commit(setProvisionTypeState(formData, type))
    /\ UserEvent
    /\ derived' = FALSE
    /\ UNCHANGED <<wallet, deb, sinceEdit, lastTyped>>

\* the wallet connects or disconnects (useTonAddress changes)
WalletChange(w) ==
    /\ LiquidityOnly
    /\ Settled
    /\ w # wallet
    /\ wallet' = w
    /\ Rerender(QueryKey(w, formData, deb))
    /\ UserEvent
    /\ derived' = FALSE
    /\ UNCHANGED <<formData, deb, timer, sinceEdit, lastTyped>>

(***************************************************************************)
(* Time and the debounce timeouts                                          *)
(***************************************************************************)
\* time advances by one tick; an expired timeout runs before time moves on
Tick ==
    /\ LiquidityOnly
    /\ Settled
    /\ (\E fld \in Fields : timer[fld] > 0) \/ sinceEdit < DelayTicks
    /\ timer' = [fld \in Fields |-> IF timer[fld] > 0 THEN timer[fld] - 1 ELSE timer[fld]]
    /\ sinceEdit' = IF sinceEdit < DelayTicks THEN sinceEdit + 1 ELSE sinceEdit
    /\ UNCHANGED <<wallet, formData, deb, cache, fetchOrder, overtaken, lateArrival,
                   lastTyped, derived, nEvents>>

\* the timeouts in F run and set their debounced values: one timeout per
\* timer callback, or several that expired together rendered as one batch
DebounceFire(F) ==
    /\ LiquidityOnly
    /\ ~EffectPending
    /\ F # {} /\ F \subseteq Expired
    /\ LET d1 == [fld \in Fields |-> IF fld \in F THEN FieldValue(formData, fld) ELSE deb[fld]]
       IN deb' = d1 /\ Rerender(QueryKey(wallet, formData, d1))
    /\ timer' = [fld \in Fields |-> IF fld \in F THEN Idle ELSE timer[fld]]
    /\ UNCHANGED <<wallet, formData, sinceEdit, lastTyped, derived, nEvents>>

(***************************************************************************)
(* The remote simulation service answers                                   *)
(***************************************************************************)
Fetching == {e \in cache : e.fetching}

RemoveKey(seq, k) == SelectSeq(seq, LAMBDA x : x # k)

\* the keys issued before k that are still in flight
IssuedBefore(k) ==
    {fetchOrder[i] : i \in {j \in 1..Len(fetchOrder) :
                               \E m \in (j + 1)..Len(fetchOrder) : fetchOrder[m] = k}}

\* bookkeeping of the order of the answers
Answered(e) ==
    /\ fetchOrder' = RemoveKey(fetchOrder, e.key)
    /\ overtaken' = (overtaken \cup IssuedBefore(e.key)) \ {e.key}
    /\ lateArrival' = (lateArrival \/ (e.key \in overtaken /\ e.key # CurKey))

ResolveSuccess(e, r) ==
    /\ LiquidityOnly
    /\ Settled
    /\ e \in Fetching
    /\ cache' = (cache \ {e}) \cup {[e EXCEPT !.fetching = FALSE, !.data = Answer(e.call, r),
                                   !.error = NoError]}
    /\ Answered(e)
    /\ UNCHANGED <<wallet, formData, deb, timer, sinceEdit, lastTyped, derived, nEvents>>

ResolveError(e, err) ==
    /\ LiquidityOnly
    /\ Settled
    /\ e \in Fetching
    /\ cache' = (cache \ {e}) \cup {[e EXCEPT !.fetching = FALSE, !.error = err]}
    /\ Answered(e)
    /\ UNCHANGED <<wallet, formData, deb, timer, sinceEdit, lastTyped, derived, nEvents>>

\* garbage collection of a settled query no observer uses (gcTime)
GarbageCollect(e) ==
    /\ LiquidityOnly
    /\ Settled
    /\ e \in cache
    /\ ~e.fetching
    /\ e.key # CurKey
    /\ \A fld \in Fields : timer[fld] = Idle
    /\ cache' = cache \ {e}
    /\ UNCHANGED <<wallet, formData, deb, timer, sinceEdit, fetchOrder, overtaken,
                   lateArrival, lastTyped, derived, nEvents>>

(***************************************************************************)
(* hooks/useProvideLiquidity: handleProvide                                *)
(***************************************************************************)
\* no submission under way, no error shown
\* no deposit transaction is being built or sent
NoTx == [sideAmountA |-> <<>>, sideAmountB |-> <<>>, minLpOut |-> <<>>, simulated |-> NoCall]

NoProvide == [pc |-> "idle", error |-> "", loadingTx |-> FALSE, tx |-> NoTx]

\* parseAmountValue(amount): parseFloat with NaN -> 0, here the number times
\* a power of ten (its digits without the point); only its sign is used
parseAmountValue(amount) == DigitsToNat(SelectSeq(amount, LAMBDA c : c \in DigitSet))

\* validateProvide: the message, or "" for null
validateProvide(tokenA, tokenB, amountA, amountB, isWalletConnected) ==
    IF tokenA = NoToken \/ tokenB = NoToken THEN "Please select both tokens (A and B)."
    ELSE IF ~isWalletConnected THEN "Please connect your wallet."
    ELSE IF ~(parseAmountValue(amountA) > 0 /\ parseAmountValue(amountB) > 0)
    THEN "Both token amounts must be greater than 0."
    ELSE ""

\* the Provide button is rendered and not disabled
ProvideEnabled ==
    /\ FormShown
    /\ provide.pc = "idle"
    /\ formData.tokenA # NoToken
    /\ formData.tokenB # NoToken
    /\ Truthy(formData.amountA)
    /\ Truthy(formData.amountB)

\* handleProvide up to its first await; matchedRouter is the router found
handleProvideState(matchedRouter) ==
    LET validationErr == validateProvide(formData.tokenA, formData.tokenB, formData.amountA,
                                         formData.amountB, wallet # "")
    IN IF validationErr # "" THEN [NoProvide EXCEPT !.error = validationErr]
       ELSE IF ~matchedRouter \/ wallet = ""
       THEN [NoProvide EXCEPT
               !.error = "No suitable router found or wallet not connected."]
       ELSE IF ~(lpSimulation.present /\ Truthy(lpSimulation.minLpUnits))
       THEN [NoProvide EXCEPT
               !.error = "Unable to retrieve simulation data or minLpUnits."]
       ELSE [pc |-> "building", error |-> "", loadingTx |-> TRUE,
             tx |-> [sideAmountA |-> formData.amountA, sideAmountB |-> formData.amountB,
                     minLpOut |-> lpSimulation.minLpUnits,
                     simulated |-> lpSimulation.request]]

\* a step of handleProvide: it writes loadingTx and error only
ProvideStep ==
    /\ route = "liquidity"
    /\ Settled
    /\ UNCHANGED <<route, wallet, lqVars, swVars, poll, lateArrival, lastTyped, derived, conv,
                   swapTx, assets>>

handleProvide(matchedRouter) ==
    /\ ProvideStep
    /\ ProvideEnabled
    /\ provide' = handleProvideState(matchedRouter)
    /\ UserEvent

\* both buildTwoSideDepositTx calls resolve: sendTransaction is called
BuildTwoSideDepositTxResolves ==
    /\ ProvideStep
    /\ provide.pc = "building"
    /\ provide' = [provide EXCEPT !.pc = "sending"]
    /\ UNCHANGED nEvents

\* sendTransaction resolves
ProvideSent ==
    /\ ProvideStep
    /\ provide.pc = "sending"
    /\ provide' = [provide EXCEPT !.pc = "idle", !.loadingTx = FALSE, !.tx = NoTx]
    /\ UNCHANGED nEvents

\* a build or the send rejects: catch, then finally
ProvideRejects ==
    /\ ProvideStep
    /\ provide.pc \in {"building", "sending"}
    /\ provide' = [NoProvide EXCEPT !.error = "Failed to provide liquidity"]
    /\ UNCHANGED nEvents

(***************************************************************************)
(* hooks/useSimpleSwap                                                     *)
(***************************************************************************)
\* quotes of the remote swap simulation: the units it computes
SwapQuotes == {<<"1", "0">>, <<"2", "5">>}

NoRequest ==
    [offerAsset |-> NoToken, askAsset |-> NoToken, offerAmount |-> <<>>,
     askAmount |-> <<>>, walletAddress |-> ""]

NoSimulation ==
    [present |-> FALSE, request |-> NoRequest, offerUnits |-> <<>>, askUnits |-> <<>>,
     minAskUnits |-> <<>>, routerAddress |-> ""]

initialState ==
    [offerAsset |-> NoToken, askAsset |-> NoToken, offerAmount |-> <<>>,
     askAmount |-> <<>>, simulationResult |-> NoSimulation, simulationError |-> "",
     loadingSimulation |-> FALSE, loadingTx |-> FALSE]

\* the dependency list of the simulation effect
SwapDeps(st, w) ==
    [offerAsset |-> st.offerAsset, askAsset |-> st.askAsset,
     offerAmount |-> st.offerAmount, askAmount |-> st.askAmount, walletAddress |-> w]

\* a simulateSwap that looks at askAmount before offerAmount
simulateSwapAskFirst(d) ==
    IF d.offerAsset = NoToken \/ d.askAsset = NoToken
    THEN [kind |-> "throw", units |-> <<>>]
    ELSE IF Truthy(d.askAmount)
    THEN IF floatToBigNumber(d.askAmount, Decimals(d.askAsset)).ok
         THEN [kind |-> "simulateReverseSwap",
               units |-> UnitsOf(d.askAmount, Decimals(d.askAsset))]
         ELSE [kind |-> "throw", units |-> <<>>]
    ELSE IF Truthy(d.offerAmount)
    THEN IF floatToBigNumber(d.offerAmount, Decimals(d.offerAsset)).ok
         THEN [kind |-> "simulateSwap",
               units |-> UnitsOf(d.offerAmount, Decimals(d.offerAsset))]
         ELSE [kind |-> "throw", units |-> <<>>]
    ELSE [kind |-> "throw", units |-> <<>>]

\* lib/swap.ts simulateSwap for the inputs d: the call that reaches
\* stonApiClient, or a locally thrown Error
simulateSwap(d) ==
    IF d.offerAsset = NoToken \/ d.askAsset = NoToken
    THEN [kind |-> "throw", units |-> <<>>]
    ELSE IF Truthy(d.offerAmount)
    THEN IF floatToBigNumber(d.offerAmount, Decimals(d.offerAsset)).ok
         THEN [kind |-> "simulateSwap",
               units |-> UnitsOf(d.offerAmount, Decimals(d.offerAsset))]
         ELSE [kind |-> "throw", units |-> <<>>]
    ELSE IF Truthy(d.askAmount)
    THEN IF floatToBigNumber(d.askAmount, Decimals(d.askAsset)).ok
         THEN [kind |-> "simulateReverseSwap",
               units |-> UnitsOf(d.askAmount, Decimals(d.askAsset))]
         ELSE [kind |-> "throw", units |-> <<>>]
    ELSE [kind |-> "throw", units |-> <<>>]

\* the router the service routes the pair of the request d through
RouterOf(d) == IF d.offerAsset = "T1" THEN "R1" ELSE "R2"

\* the SwapSimulation the service answers to the request rq with quote q
SwapAnswer(rq, q) ==
    [present |-> TRUE, request |-> rq.request,
     offerUnits |-> IF rq.call.kind = "simulateSwap" THEN rq.call.units ELSE q,
     askUnits |-> IF rq.call.kind = "simulateSwap" THEN q ELSE rq.call.units,
     minAskUnits |-> IF rq.call.kind = "simulateSwap" THEN q ELSE rq.call.units,
     routerAddress |-> RouterOf(rq.request)]

\* a cleanup that leaves the superseded runs uncancelled
CleanupWithoutCancel(inFlight) == inFlight

\* the cleanup of the previous effect run: isCancelled = true
Cleanup(inFlight) == {[rq EXCEPT !.isCancelled = TRUE] : rq \in inFlight}

SwapEffectPending == SwapDeps(swap, wallet) # swDeps

\* the swap page is mounted; the liquidity form and the polling are not
SwapOnly == route = "swap" /\ UNCHANGED <<route, lqVars, poll, auxVars>>

\* Run simulation whenever offer/ask amounts or assets change (useEffect)
\* an effect that starts the simulation and leaves the stored result in place
simulationStartStateKeepingResult(st) ==
    [st EXCEPT !.loadingSimulation = TRUE, !.simulationError = ""]

\* updateState({ loadingSimulation: true, simulationError: "", simulationResult: null })
simulationStartState(st) ==
    [st EXCEPT !.loadingSimulation = TRUE, !.simulationError = "",
               !.simulationResult = NoSimulation]

SimulationEffect ==
    /\ SwapOnly
    /\ SwapEffectPending
    /\ swDeps' = SwapDeps(swap, wallet)
    /\ IF wallet = "" \/ swap.offerAsset = NoToken \/ swap.askAsset = NoToken
          \/ (~Truthy(swap.offerAmount) /\ ~Truthy(swap.askAmount))
       THEN /\ swap' = [swap EXCEPT !.simulationResult = NoSimulation,
                                    !.simulationError = ""]
            /\ swInFlight' = Cleanup(swInFlight)
       ELSE /\ swap' = simulationStartState(swap)
            /\ swInFlight' = Cleanup(swInFlight) \cup
                  {[request |-> SwapDeps(swap, wallet),
                    call |-> simulateSwap(SwapDeps(swap, wallet)),
                    isCancelled |-> FALSE]}
    /\ UNCHANGED <<wallet, lateArrival, lastTyped, derived, nEvents>>

\* an answer to a superseded request arrives while a newer result is shown
SwapLate(rq) == lateArrival \/ (rq.isCancelled /\ swap.simulationResult.present)

\* simulateSwap resolves with quote q
SwapResolve(rq, q) ==
    /\ SwapOnly
    /\ ~SwapEffectPending
    /\ rq \in swInFlight
    /\ rq.call.kind # "throw"
    /\ swInFlight' = swInFlight \ {rq}
    /\ swap' = IF rq.isCancelled THEN swap
               ELSE IF Truthy(rq.request.offerAmount)
               THEN [swap EXCEPT !.simulationResult = SwapAnswer(rq, q),
                                 !.askAmount = formatAmount(SwapAnswer(rq, q).minAskUnits,
                                                            Decimals(rq.request.askAsset)),
                                 !.loadingSimulation = FALSE]
               ELSE [swap EXCEPT !.simulationResult = SwapAnswer(rq, q),
                                 !.offerAmount = formatAmount(SwapAnswer(rq, q).offerUnits,
                                                              Decimals(rq.request.offerAsset)),
                                 !.loadingSimulation = FALSE]
    /\ lateArrival' = SwapLate(rq)
    /\ derived' = (derived \/ ~rq.isCancelled)
    /\ UNCHANGED <<wallet, swDeps, lastTyped, nEvents>>

\* simulateSwap rejects: the service fails, or the call threw locally
SwapReject(rq) ==
    /\ SwapOnly
    /\ ~SwapEffectPending
    /\ rq \in swInFlight
    /\ swInFlight' = swInFlight \ {rq}
    /\ swap' = IF rq.isCancelled THEN swap
               ELSE [swap EXCEPT !.simulationError = "Simulation failed",
                                 !.loadingSimulation = FALSE]
    /\ lateArrival' = SwapLate(rq)
    /\ UNCHANGED <<wallet, swDeps, lastTyped, derived, nEvents>>

\* a user action on the swap form
SwapInput(st) ==
    /\ SwapOnly
    /\ ~SwapEffectPending
    /\ Cardinality(swInFlight) < MaxInFlight
    /\ st # swap
    /\ swap' = st
    /\ derived' = FALSE
    /\ UNCHANGED <<wallet, swDeps, swInFlight, lateArrival>>

handleOfferAssetChange(asset) ==
    /\ wallet # ""
    /\ SwapInput([swap EXCEPT !.offerAsset = asset,
                              !.askAsset = IF asset = swap.askAsset THEN NoToken
                                           ELSE swap.askAsset,
                              !.offerAmount = <<>>, !.askAmount = <<>>])
    /\ IF swap.offerAsset = NoToken THEN UNCHANGED nEvents ELSE UserEvent
    /\ lastTyped' = Null

\* the "You Receive" selector lists allAssets without the offer asset
AskAssetOptions == (Tokens \ {swap.offerAsset}) \cup {NoToken}

handleAskAssetChange(asset) ==
    /\ wallet # ""
    /\ asset \in AskAssetOptions
    /\ SwapInput([swap EXCEPT !.askAsset = asset, !.askAmount = <<>>])
    /\ IF swap.askAsset = NoToken THEN UNCHANGED nEvents ELSE UserEvent
    /\ lastTyped' = IF lastTyped = "ask" THEN Null ELSE lastTyped

handleOfferAmountChange(amount) ==
    /\ SwapInput([swap EXCEPT !.offerAmount = amount])
    /\ UserEvent
    /\ lastTyped' = "offer"

handleAskAmountChange(amount) ==
    /\ SwapInput([swap EXCEPT !.askAmount = amount])
    /\ UserEvent
    /\ lastTyped' = "ask"

\* transactionDetails undefined
NoDetails == [queryId |-> 0, routerAddress |-> "", ownerAddress |-> ""]

\* the wallet connects or disconnects while the swap page is mounted;
\* on disconnect the reset effect puts back initialState
SwapWalletChange(w) ==
    /\ route = "swap"
    /\ UNCHANGED <<route, lqVars, poll, conv, provide>>
    /\ swapTx' = IF w = "" THEN [swapTx EXCEPT !.transactionDetails = NoDetails]
                 ELSE swapTx
    /\ assets' = IF w = "" THEN [assets EXCEPT !.allAssets = {}]
                 ELSE [assets EXCEPT !.fetching = @ \cup {w}]
    /\ ~SwapEffectPending
    /\ Cardinality(swInFlight) < MaxInFlight
    /\ w # wallet
    /\ wallet' = w
    /\ swap' = IF w = "" THEN initialState ELSE swap
    /\ lastTyped' = IF w = "" THEN Null ELSE lastTyped
    /\ derived' = FALSE
    /\ UserEvent
    /\ UNCHANGED <<swDeps, swInFlight, lateArrival>>

(***************************************************************************)
(* hooks/useSimpleSwap: handleSwap                                         *)
(***************************************************************************)
\* no submission under way, transactionDetails undefined, no toast shown;
\* clock is the last reading of Date.now(), tx what buildSwapTransaction got
NoSwapTx ==
    [pc |-> "idle", transactionDetails |-> NoDetails, toast |-> "", clock |-> 0,
     tx |-> [queryId |-> 0, simulation |-> NoSimulation, walletAddress |-> ""]]

\* details that read the clock again for their queryId
transactionDetailsFreshQueryId(tx) ==
    [queryId |-> tx.queryId + 1, routerAddress |-> tx.simulation.routerAddress,
     ownerAddress |-> tx.walletAddress]

\* setTransactionDetails({ queryId, routerAddress, ownerAddress })
transactionDetailsOf(tx) ==
    [queryId |-> tx.queryId, routerAddress |-> tx.simulation.routerAddress,
     ownerAddress |-> tx.walletAddress]

\* a catch block that also clears the form
handleSwapFailedStateClearing(st) ==
    [st EXCEPT !.offerAmount = <<>>, !.askAmount = <<>>,
               !.simulationResult = NoSimulation, !.loadingTx = FALSE]

\* the swap state after sendTransaction has resolved (try, then finally)
handleSwapSentState(st) ==
    [st EXCEPT !.offerAmount = <<>>, !.askAmount = <<>>,
               !.simulationResult = NoSimulation, !.loadingTx = FALSE]

\* a catch block with no finally after it
handleSwapFailedStateNoFinally(st) == st

\* the swap state after buildSwapTransaction or sendTransaction has
\* rejected (catch, then finally)
handleSwapFailedState(st) == [st EXCEPT !.loadingTx = FALSE]

\* a step of handleSwap; the status polling it starts is followed separately
SwapSubmitStep ==
    /\ route = "swap"
    /\ ~SwapEffectPending
    /\ UNCHANGED <<route, wallet, lqVars, poll, conv, provide, assets, swDeps, swInFlight,
                   lateArrival,
                   derived>>

\* the Swap button is enabled and clicked: handleSwap up to its first await
handleSwap ==
    /\ SwapSubmitStep
    /\ swap.simulationResult.present
    /\ ~swap.loadingTx
    /\ wallet # ""
    /\ swapTx.pc = "idle"
    /\ swap' = [swap EXCEPT !.loadingTx = TRUE]
    /\ swapTx' = [swapTx EXCEPT !.pc = "building", !.clock = @ + 1,
                                !.tx = [queryId |-> swapTx.clock + 1,
                                        simulation |-> swap.simulationResult,
                                        walletAddress |-> wallet]]
    /\ UserEvent
    /\ UNCHANGED lastTyped

\* buildSwapTransaction resolves: sendTransaction is called
BuildSwapTransactionResolves ==
    /\ SwapSubmitStep
    /\ swapTx.pc = "building"
    /\ swapTx' = [swapTx EXCEPT !.pc = "sending"]
    /\ UNCHANGED <<swap, lastTyped, nEvents>>

\* sendTransaction resolves: details saved, amounts and result cleared
SendTransactionResolves ==
    /\ SwapSubmitStep
    /\ swapTx.pc = "sending"
    /\ swapTx' = [swapTx EXCEPT !.pc = "idle", !.toast = "Transaction Sent",
                                !.transactionDetails = transactionDetailsOf(swapTx.tx),
                                !.tx = NoSwapTx.tx]
    /\ swap' = handleSwapSentState(swap)
    /\ lastTyped' = Null
    /\ UNCHANGED nEvents

\* the wallet rejects or the build or the send fails
SwapSubmitRejects ==
    /\ SwapSubmitStep
    /\ swapTx.pc \in {"building", "sending"}
    /\ swapTx' = [swapTx EXCEPT !.pc = "idle", !.toast = "Transaction Failed",
                                !.tx = NoSwapTx.tx]
    /\ swap' = handleSwapFailedState(swap)
    /\ UNCHANGED <<lastTyped, nEvents>>

(***************************************************************************)
(* hooks/useSwapStatusQuery: the query function polling getSwapStatus      *)
(***************************************************************************)
SWAP_STATUS_REFETCH_INTERVAL_MS == 5000

SWAP_STATUS_TIMEOUT_MS == 300000

\* retry: 3
SwapStatusRetries == 3

\* no transaction submitted: the query is disabled
PollIdle ==
    [pc |-> "idle", elapsedMs |-> 0, aborted |-> FALSE, failureCount |-> 0,
     exitCode |-> "", toasts |-> <<>>]

\* the exit codes a "Found" answer carries
ExitCodes == {"failed", "swap_ok", "swap_refunded"}

\* the time the model follows a run of the query function
PollHorizonMs == SWAP_STATUS_TIMEOUT_MS + ExtraPolls * SWAP_STATUS_REFETCH_INTERVAL_MS

\* the setTimeout(abort, SWAP_STATUS_TIMEOUT_MS) of the running query function is due
TimeoutDue ==
    /\ poll.pc \in {"request", "sleep"}
    /\ ~poll.aborted
    /\ poll.elapsedMs >= SWAP_STATUS_TIMEOUT_MS

\* only the status query runs
PollOnly ==
    poll.pc # "idle" /\ UNCHANGED <<route, wallet, lqVars, swVars, lateArrival, lastTyped, derived, nEvents, auxVars>>

\* the timeout callback: abortController.abort()
TimeoutFires ==
    /\ PollOnly
    /\ TimeoutDue
    /\ poll' = [poll EXCEPT !.aborted = TRUE]

\* getSwapStatus takes one more interval to answer
GetSwapStatusPending ==
    /\ PollOnly
    /\ ~TimeoutDue
    /\ poll.pc = "request"
    /\ poll.elapsedMs < PollHorizonMs
    /\ poll' = [poll EXCEPT !.elapsedMs = @ + SWAP_STATUS_REFETCH_INTERVAL_MS]

\* getSwapStatus answers "Found": break, return swapStatus
GetSwapStatusFound ==
    /\ PollOnly
    /\ ~TimeoutDue
    /\ poll.pc = "request"
    /\ \E exitCode \in ExitCodes :
         poll' = [poll EXCEPT !.pc = "success", !.exitCode = exitCode]

\* getSwapStatus answers "NotFound": wait for the refetch interval
GetSwapStatusNotFound ==
    /\ PollOnly
    /\ ~TimeoutDue
    /\ poll.pc = "request"
    /\ poll' = [poll EXCEPT !.pc = "sleep"]

\* the wait is over and the loop condition swapStatus["@type"] === "NotFound" holds
PollAgain ==
    /\ PollOnly
    /\ ~TimeoutDue
    /\ poll.pc = "sleep"
    /\ poll.elapsedMs < PollHorizonMs
    /\ poll' = [poll EXCEPT !.pc = "request",
                            !.elapsedMs = @ + SWAP_STATUS_REFETCH_INTERVAL_MS]

\* getSwapStatus rejects: the query function throws, the query retries or fails
GetSwapStatusRejects ==
    /\ PollOnly
    /\ ~TimeoutDue
    /\ poll.pc = "request"
    /\ poll' = IF poll.failureCount < SwapStatusRetries
               THEN [poll EXCEPT !.pc = "retry", !.failureCount = @ + 1]
               ELSE [poll EXCEPT !.pc = "error"]

\* a retry runs the query function again: a new AbortController and timeout
PollRetry ==
    /\ PollOnly
    /\ poll.pc = "retry"
    /\ poll' = [poll EXCEPT !.pc = "request", !.elapsedMs = 0, !.aborted = FALSE]

(***************************************************************************)
(* hooks/useSwapStatusNotifications: the two effects over the status query *)
(***************************************************************************)
\* the toast of the second effect for a truthy exit code
exitCodeToast(exitCode) ==
    IF exitCode = "failed" THEN "Transaction Failed"
    ELSE IF exitCode = "swap_ok" THEN "Transaction Successful"
    ELSE "Transaction Status"

\* useEffect on [isError]: the query has failed after its retries
StatusErrorEffect ==
    /\ PollOnly
    /\ poll.pc = "error"
    /\ poll.toasts = <<>>
    /\ poll' = [poll EXCEPT !.toasts = Append(@, "Transaction status check failed")]

\* useEffect on [data?.exitCode]: the query has returned a status with an exit code
ExitCodeEffect ==
    /\ PollOnly
    /\ poll.pc = "success"
    /\ poll.exitCode # ""
    /\ poll.toasts = <<>>
    /\ poll' = [poll EXCEPT !.toasts = Append(@, exitCodeToast(poll.exitCode))]

(***************************************************************************)
(* Specification                                                           *)
(***************************************************************************)
(***************************************************************************)
(* lib/utils.ts applied to one input: floatToBigNumber, then formatAmount  *)
(* of the units as the callers chain them                                  *)
(***************************************************************************)
ConvChars == {"-", ".", "0", "1", "5"}

RECURSIVE StringsUpTo(_)
StringsUpTo(n) ==
    IF n = 0 THEN {<<>>}
    ELSE StringsUpTo(n - 1)
         \cup {Append(x, c) : x \in {y \in StringsUpTo(n - 1) : Len(y) = n - 1}, c \in ConvChars}

NoConversion ==
    [stage |-> "none", value |-> <<>>, decimals |-> 0, units |-> [ok |-> TRUE, v |-> 0],
     text |-> <<>>]

\* floatToBigNumber(value, decimals) returns or throws
Convert ==
    /\ conv.stage = "input"
    /\ conv' = [conv EXCEPT !.units = floatToBigNumber(conv.value, conv.decimals),
                            !.stage = IF floatToBigNumber(conv.value, conv.decimals).ok
                                      THEN "units" ELSE "thrown"]
    /\ UNCHANGED <<route, wallet, lqVars, swVars, poll, lateArrival, lastTyped, derived, nEvents,
                   swapTx, provide, assets>>

\* formatAmount(units.toString(), decimals)
Format ==
    /\ conv.stage = "units"
    /\ conv' = [conv EXCEPT !.text = formatAmount(BigIntToString(conv.units.v), conv.decimals),
                            !.stage = "text"]
    /\ UNCHANGED <<route, wallet, lqVars, swVars, poll, lateArrival, lastTyped, derived, nEvents,
                   swapTx, provide, assets>>

Init ==
    /\ route \in {"swap", "liquidity"}
    /\ wallet \in {""} \cup Wallets
    /\ formData = InitialFormData
    /\ deb = [A |-> <<>>, B |-> <<>>, S |-> Null]
    /\ timer = [A |-> Idle, B |-> Idle, S |-> Idle]
    /\ sinceEdit = DelayTicks
    /\ cache = {}
    /\ fetchOrder = <<>>
    /\ overtaken = {}
    /\ swap = initialState
    /\ swDeps = SwapDeps(initialState, wallet)
    /\ swInFlight = {}
    /\ poll = PollIdle
    /\ lateArrival = FALSE
    /\ lastTyped = Null
    /\ derived = FALSE
    /\ nEvents = 0
    /\ conv = NoConversion
    /\ swapTx = NoSwapTx
    /\ provide = NoProvide
    /\ assets = MountAssets(route, wallet)

LiquidityNext ==
    \/ AutoUpdate
    \/ AlreadyExists
    \/ \E side \in Sides, asset \in Tokens \cup {NoToken} : handleTokenChange(side, asset)
    \/ \E side \in Sides, amount \in UserAmounts : handleAmountChange(side, amount)
    \/ \E type \in ProvisionTypes : setProvisionType(type)
    \/ \E w \in {""} \cup Wallets : WalletChange(w)
    \/ Tick
    \/ \E F \in SUBSET Fields : DebounceFire(F)
    \/ \E e \in cache, r \in Results : ResolveSuccess(e, r)
    \/ \E e \in cache, err \in ServiceErrors : ResolveError(e, err)
    \/ \E e \in cache : GarbageCollect(e)
    \/ \E matchedRouter \in BOOLEAN : handleProvide(matchedRouter)
    \/ BuildTwoSideDepositTxResolves
    \/ ProvideSent
    \/ ProvideRejects

\* fetchAssets(w) resolves: updateState({ allAssets: assets })
LoadAssetsResolves(w) ==
    /\ route = "swap"
    /\ ~SwapEffectPending
    /\ w \in assets.fetching
    /\ assets' = [allAssets |-> Tokens, fetching |-> assets.fetching \ {w}]
    /\ UNCHANGED <<route, wallet, lqVars, swVars, poll, lateArrival, lastTyped, derived, nEvents,
                   conv, swapTx, provide>>

\* fetchAssets(w) rejects: the error is logged
LoadAssetsRejects(w) ==
    /\ route = "swap"
    /\ ~SwapEffectPending
    /\ w \in assets.fetching
    /\ assets' = [assets EXCEPT !.fetching = @ \ {w}]
    /\ UNCHANGED <<route, wallet, lqVars, swVars, poll, lateArrival, lastTyped, derived, nEvents,
                   conv, swapTx, provide>>

SwapNext ==
    \/ SimulationEffect
    \/ \E rq \in swInFlight, q \in SwapQuotes : SwapResolve(rq, q)
    \/ \E rq \in swInFlight : SwapReject(rq)
    \/ \E asset \in Tokens \cup {NoToken} : handleOfferAssetChange(asset)
    \/ \E asset \in Tokens \cup {NoToken} : handleAskAssetChange(asset)
    \/ \E amount \in UserAmounts : handleOfferAmountChange(amount)
    \/ \E amount \in UserAmounts : handleAskAmountChange(amount)
    \/ \E w \in {""} \cup Wallets : SwapWalletChange(w)
    \/ \E w \in Wallets : LoadAssetsResolves(w)
    \/ \E w \in Wallets : LoadAssetsRejects(w)
    \/ handleSwap
    \/ BuildSwapTransactionResolves
    \/ SendTransactionResolves
    \/ SwapSubmitRejects

Next == LiquidityNext \/ SwapNext

Spec == Init /\ [][Next]_vars

\* a swap has been submitted: transactionDetails is set and the status query starts
PollInit ==
    /\ route = "swap"
    /\ wallet \in Wallets
    /\ formData = InitialFormData
    /\ deb = [A |-> <<>>, B |-> <<>>, S |-> Null]
    /\ timer = [A |-> Idle, B |-> Idle, S |-> Idle]
    /\ sinceEdit = DelayTicks
    /\ cache = {}
    /\ fetchOrder = <<>>
    /\ overtaken = {}
    /\ swap = initialState
    /\ swDeps = SwapDeps(initialState, wallet)
    /\ swInFlight = {}
    /\ poll = [PollIdle EXCEPT !.pc = "request"]
    /\ lateArrival = FALSE
    /\ lastTyped = Null
    /\ derived = FALSE
    /\ nEvents = 0
    /\ conv = NoConversion
    /\ swapTx = NoSwapTx
    /\ provide = NoProvide
    /\ assets = MountAssets(route, wallet)

PollNext ==
    \/ TimeoutFires
    \/ GetSwapStatusPending
    \/ GetSwapStatusFound
    \/ GetSwapStatusNotFound
    \/ PollAgain
    \/ GetSwapStatusRejects
    \/ PollRetry
    \/ StatusErrorEffect
    \/ ExitCodeEffect

PollSpec == PollInit /\ [][PollNext]_vars

\* the forms a user can have filled in before the wallet is connected again:
\* both tokens chosen, the amounts typed in either order, the pool learnt from
\* an already-exists answer when both amounts were sent, and the mode switched
ResumedForms ==
    LET tokens == handleTokenChangeState(
                      handleTokenChangeState(InitialFormData, "A", "T1"), "B", "T2")
        typed == {handleAmountChangeState(
                      handleAmountChangeState(tokens, first,
                                              IF first = "A" THEN a ELSE b),
                      IF first = "A" THEN "B" ELSE "A",
                      IF first = "A" THEN b ELSE a) :
                    first \in Sides, a \in UserAmounts, b \in UserAmounts}
        withPool == typed \cup
                    {alreadyExistsState(f, p) :
                       f \in {g \in typed : Truthy(g.amountA) /\ Truthy(g.amountB)},
                       p \in Pools}
    IN withPool \cup {setProvisionTypeState(f, type) :
                        f \in withPool, type \in ProvisionTypes}

\* a form filled in earlier, its debounced values settled, no wallet connected
ResumeInit ==
    /\ route = "liquidity"
    /\ wallet = ""
    /\ formData \in ResumedForms
    /\ deb = [A |-> formData.amountA, B |-> formData.amountB, S |-> formData.activeSide]
    /\ timer = [A |-> Idle, B |-> Idle, S |-> Idle]
    /\ sinceEdit = DelayTicks
    /\ cache = {}
    /\ fetchOrder = <<>>
    /\ overtaken = {}
    /\ swap = initialState
    /\ swDeps = SwapDeps(initialState, wallet)
    /\ swInFlight = {}
    /\ poll = PollIdle
    /\ lateArrival = FALSE
    /\ lastTyped = Null
    /\ derived = FALSE
    /\ nEvents = 0
    /\ conv = NoConversion
    /\ swapTx = NoSwapTx
    /\ provide = NoProvide
    /\ assets = MountAssets(route, wallet)

\* the wallet is connected or disconnected and the simulation pipeline runs
ResumeNext ==
    \/ \E w \in {""} \cup Wallets : WalletChange(w)
    \/ AutoUpdate
    \/ AlreadyExists
    \/ Tick
    \/ \E F \in SUBSET Fields : DebounceFire(F)
    \/ \E e \in cache, r \in Results : ResolveSuccess(e, r)
    \/ \E e \in cache, err \in ServiceErrors \cup AlternateErrors : ResolveError(e, err)

ResumeSpec == ResumeInit /\ [][ResumeNext]_vars

\* the same session with the user editing the amounts and pressing Provide
ProvideNext ==
    \/ ResumeNext
    \/ \E side \in Sides, amount \in UserAmounts : handleAmountChange(side, amount)
    \/ \E matchedRouter \in BOOLEAN : handleProvide(matchedRouter)
    \/ BuildTwoSideDepositTxResolves
    \/ ProvideSent
    \/ ProvideRejects

\* the forms of ResumeInit that are still in Initial mode with no pool known
ProvideInit ==
    ResumeInit /\ formData.provisionType = "Initial" /\ formData.poolAddress = NoPool

ProvideSpec == ProvideInit /\ [][ProvideNext]_vars

\* the swap page on its own
SwapInit == Init /\ route = "swap"

\* an effect that is due runs, and a simulateSwap in flight settles
SwapSettles ==
    \/ \E rq \in swInFlight, q \in SwapQuotes : SwapResolve(rq, q)
    \/ \E rq \in swInFlight : SwapReject(rq)

\* the swap page where React runs the effects it has scheduled and every
\* service call settles; the user may stop acting at any time
SwapFairSpec ==
    SwapInit /\ [][SwapNext]_vars /\ WF_vars(SimulationEffect) /\ WF_vars(SwapSettles)

\* a conversion of any string of ConvChars at any decimal count
ConvInit ==
    /\ route = "swap"
    /\ wallet = ""
    /\ formData = InitialFormData
    /\ deb = [A |-> <<>>, B |-> <<>>, S |-> Null]
    /\ timer = [A |-> Idle, B |-> Idle, S |-> Idle]
    /\ sinceEdit = DelayTicks
    /\ cache = {}
    /\ fetchOrder = <<>>
    /\ overtaken = {}
    /\ swap = initialState
    /\ swDeps = SwapDeps(initialState, wallet)
    /\ swInFlight = {}
    /\ poll = PollIdle
    /\ lateArrival = FALSE
    /\ lastTyped = Null
    /\ derived = FALSE
    /\ nEvents = 0
    /\ swapTx = NoSwapTx
    /\ provide = NoProvide
    /\ assets = MountAssets(route, wallet)
    /\ \E v \in StringsUpTo(MaxLen), d \in 0..MaxDecimals :
         conv = [NoConversion EXCEPT !.stage = "input", !.value = v, !.decimals = d]

ConvNext == Convert \/ Format

ConvSpec == ConvInit /\ [][ConvNext]_vars

(***************************************************************************)
(* lib/swap.ts simulateSwap applied to bounded inputs                      *)
(***************************************************************************)
\* the longest amount string passed to simulateSwap
MaxAmountLen == 2

\* the parameters of one call: assets present or missing, amounts present,
\* empty or malformed
SimulateInit ==
    /\ route = "swap"
    /\ wallet = ""
    /\ formData = InitialFormData
    /\ deb = [A |-> <<>>, B |-> <<>>, S |-> Null]
    /\ timer = [A |-> Idle, B |-> Idle, S |-> Idle]
    /\ sinceEdit = DelayTicks
    /\ cache = {}
    /\ fetchOrder = <<>>
    /\ overtaken = {}
    /\ \E oa \in Tokens \cup {NoToken}, aa \in Tokens \cup {NoToken},
          o \in StringsUpTo(MaxAmountLen), a \in StringsUpTo(MaxAmountLen) :
         swap = [initialState EXCEPT !.offerAsset = oa, !.askAsset = aa,
                                     !.offerAmount = o, !.askAmount = a]
    /\ swDeps = SwapDeps(swap, wallet)
    /\ swInFlight = {}
    /\ poll = PollIdle
    /\ lateArrival = FALSE
    /\ lastTyped = Null
    /\ derived = FALSE
    /\ nEvents = 0
    /\ swapTx = NoSwapTx
    /\ provide = NoProvide
    /\ assets = MountAssets(route, wallet)
    /\ conv = NoConversion

\* simulateSwap is called with the parameters drawn
SimulateSwapCall ==
    /\ swInFlight = {}
    /\ swInFlight' = {[request |-> SwapDeps(swap, wallet),
                       call |-> simulateSwap(SwapDeps(swap, wallet)),
                       isCancelled |-> FALSE]}
    /\ UNCHANGED <<route, wallet, lqVars, swap, swDeps, poll, lateArrival, lastTyped,
                   derived, nEvents, auxVars>>

SimulateNext == SimulateSwapCall

SimulateSpec == SimulateInit /\ [][SimulateNext]_vars

(***************************************************************************)
(* Properties                                                              *)
(***************************************************************************)
\* C1: in the swap form and in the liquidity form the stored simulation result
\* is always the answer to the latest request (the one issued for the current
\* inputs); an answer to an earlier request that arrives after it is discarded.
C1_OnlyLatestResultShown ==
    /\ swap.simulationResult.present => swap.simulationResult.request = swDeps
    /\ lpSimulation.present => lpSimulation.request = queryFn(CurKey).call

\* an earlier swap request has answered after the later one, whose result is shown
C1_SwapLateArrival == route = "swap" /\ lateArrival /\ swap.simulationResult.present

\* an earlier liquidity request has answered after the later one, whose result is shown
C1_LiquidityLateArrival == route = "liquidity" /\ lateArrival /\ lpSimulation.present

C1_Witness == C1_SwapLateArrival \/ C1_LiquidityLateArrival

\* the query key the form's inputs give once every debounce has caught up
CurrentInputsKey ==
    QueryKey(wallet, formData,
             [A |-> formData.amountA, B |-> formData.amountB, S |-> formData.activeSide])

\* C2: the auto-update step writes a simulation result into the form only when
\* the request that result answers is the request of the form's current inputs
\* (assets, amounts, active side, mode); it never applies the simulation of
\* earlier inputs while a newer edit still waits in the debounce window.
C2_AppliedResultIsOfCurrentInputs ==
    [][AutoUpdate => lpSimulation.request = queryFn(CurrentInputsKey).call]_vars

\* C3: in Balanced mode with activeSide = A the reconciliation sets amount B to
\* the result's tokenBUnits formatted at B's decimals, trailing fractional zeros
\* trimmed, and leaves amount A as typed; symmetrically for activeSide = B.
C3_ReconciliationFormatsOtherSide ==
    [][AutoUpdate =>
         /\ formData.activeSide = "A" =>
              /\ formData'.amountA = formData.amountA
              /\ formData'.amountB = formatAmount(lpSimulation.tokenBUnits,
                                                  Decimals(formData.tokenB))
              /\ floatToBigNumber(formData'.amountB, Decimals(formData.tokenB))
                     = BigIntOf(lpSimulation.tokenBUnits)
              /\ HasFraction(formData'.amountB) =>
                     formData'.amountB[Len(formData'.amountB)] # "0"
         /\ formData.activeSide = "B" =>
              /\ formData'.amountB = formData.amountB
              /\ formData'.amountA = formatAmount(lpSimulation.tokenAUnits,
                                                  Decimals(formData.tokenA))
              /\ floatToBigNumber(formData'.amountA, Decimals(formData.tokenA))
                     = BigIntOf(lpSimulation.tokenAUnits)
              /\ HasFraction(formData'.amountA) =>
                     formData'.amountA[Len(formData'.amountA)] # "0"
         /\ formData.activeSide \in Sides]_vars

\* a result has arrived in Balanced mode with side A active and amount B shows
\* its tokenBUnits "25" at two decimals, amount A being what the user typed
C3_Witness ==
    /\ formData.provisionType = "Balanced"
    /\ formData.activeSide = "A"
    /\ lpSimulation.present
    /\ formData.tokenB = "T2"
    /\ formData.amountA \in UserAmounts
    /\ formData.amountB = <<"0", ".", "2", "5">>

\* C4: from mode Initial with both amounts populated, an error "already
\* exists: <addr>" leaves mode = Balanced, poolAddress = <addr> and a mode
\* history that contains both Initial and Balanced.
C4_AlreadyExistsRecordsBothModes ==
    [][(AlreadyExists /\ Truthy(formData.amountA) /\ Truthy(formData.amountB)) =>
         /\ formData'.provisionType = "Balanced"
         /\ formData'.poolAddress = PoolFromError(simulationError)
         /\ Includes(formData'.provisionHistory, "Initial")
         /\ Includes(formData'.provisionHistory, "Balanced")]_vars

\* C5: changing either side's asset to a new value, a first selection and a
\* deselection included, leaves both amounts empty, poolAddress undefined,
\* activeSide null, the mode history empty and mode = Initial.
C5_TokenChangeAlwaysResets ==
    [][(\E side \in Sides, asset \in Tokens \cup {NoToken} : handleTokenChange(side, asset)) =>
         /\ formData'.amountA = <<>>
         /\ formData'.amountB = <<>>
         /\ formData'.poolAddress = NoPool
         /\ formData'.activeSide = Null
         /\ formData'.provisionHistory = <<>>
         /\ formData'.provisionType = "Initial"]_vars

\* C6: once SWAP_STATUS_TIMEOUT_MS have elapsed and the timeout has fired,
\* polling stops: no further getSwapStatus request is issued while the service
\* keeps answering NotFound.
C6_PollingStopsAtTimeout ==
    [][(poll.aborted /\ poll.elapsedMs >= SWAP_STATUS_TIMEOUT_MS) =>
         ~(poll.pc = "sleep" /\ poll'.pc = "request")]_vars

\* a liquidity simulation request is sent to the remote service in this step
RequestIssued == Len(fetchOrder') > Len(fetchOrder)

\* the key of the request sent in this step
IssuedKey == fetchOrder'[Len(fetchOrder')]

\* C7: a liquidity simulation request is issued only after a quiet period of
\* 500 ms (DelayTicks) without an edit of an amount or of the active side.
C7_RequestOnlyAfterQuietPeriod ==
    [][RequestIssued => sinceEdit >= DelayTicks]_vars

\* C8: every simulation request that is sent is the request of the form's most
\* recent inputs (amounts, activeSide, assets, mode, pool address) at the moment
\* it is sent, never a mixture of current and older values.
C8_RequestCarriesLatestInputs ==
    [][RequestIssued => queryFn(IssuedKey).call = queryFn(CurrentInputsKey').call]_vars

\* C9: in mode Balanced with no poolAddress known no call to the remote
\* simulation service is made, whatever tokens and amounts are set.
C9_NoCallWithoutPool ==
    [][(formData'.provisionType = "Balanced" /\ formData'.poolAddress = NoPool) =>
         ~RequestIssued]_vars

\* Balanced without a pool, both tokens selected, amount A set and debounced:
\* the query function has run and has failed locally
C9_Witness ==
    /\ formData.provisionType = "Balanced"
    /\ formData.poolAddress = NoPool
    /\ formData.tokenA # NoToken /\ formData.tokenB # NoToken
    /\ Truthy(formData.amountA)
    /\ deb.A = formData.amountA
    /\ wallet # ""
    /\ simulationError = LocalError

\* the amount is present and greater than 0 at the given decimals
Positive(amount, decimals) ==
    /\ Truthy(amount)
    /\ floatToBigNumber(amount, decimals).ok
    /\ floatToBigNumber(amount, decimals).v > 0

\* the minimum input requirement of the mode of key k
MinimumInput(k) ==
    IF k.provisionType = "Balanced"
    THEN /\ k.poolAddress # NoPool
         /\ \/ Positive(k.debouncedAmountA, Decimals(k.tokenA))
            \/ Positive(k.debouncedAmountB, Decimals(k.tokenB))
    ELSE /\ Positive(k.debouncedAmountA, Decimals(k.tokenA))
         /\ Positive(k.debouncedAmountB, Decimals(k.tokenB))

\* C10: a liquidity simulation is requested only when the minimum input
\* requirement of the mode holds; an amount "0" does not satisfy it.
C10_RequestNeedsMinimumInput ==
    [][RequestIssued => MinimumInput(IssuedKey)]_vars

\* C11: after any sequence of asset selections the two sides never hold the
\* same asset: swap offer/ask differ and liquidity token A / token B differ.
C11_SidesNeverHoldSameAsset ==
    /\ swap.offerAsset # NoToken => swap.offerAsset # swap.askAsset
    /\ formData.tokenA # NoToken => formData.tokenA # formData.tokenB

\* C12: reconciliation after a simulation result never overwrites the amount
\* field the user typed into last, in the liquidity form and in the swap form
\* (also when an ask amount is typed while the offer amount is non-empty).
C12_ReconciliationKeepsLastTyped ==
    [][/\ AutoUpdate =>
            /\ lastTyped = "A" => formData'.amountA = formData.amountA
            /\ lastTyped = "B" => formData'.amountB = formData.amountB
       /\ (\E rq \in swInFlight, q \in SwapQuotes : SwapResolve(rq, q)) =>
            /\ lastTyped = "offer" => swap'.offerAmount = swap.offerAmount
            /\ lastTyped = "ask" => swap'.askAmount = swap.askAmount]_vars

\* a swap simulation request is sent in this step
SwapRequestIssued ==
    \E rq \in swInFlight' : ~rq.isCancelled /\ rq.call.kind # "throw" /\ rq \notin swInFlight

\* C13: no feedback loop: once reconciliation has written the derived amount
\* of a simulation result, no further simulation request is issued until the
\* user acts again.
C13_NoFeedbackLoop ==
    [][(RequestIssued \/ SwapRequestIssued) => ~derived]_vars

\* the results a reconciliation may be handed: those the cache holds and
\* those the service quotes in full
AnyResult == {e.data : e \in cache} \cup {Answer(NoCall, r) : r \in Results}

\* C14: in Initial and Arbitrary mode a simulation result overwrites neither
\* amount: for every result the amounts after reconciliation are the amounts
\* before it, and the auto-update effect has nothing to write.
C14_NoOverwriteOutsideBalanced ==
    formData.provisionType \in {"Initial", "Arbitrary"} =>
        /\ \A sim \in AnyResult :
             getUpdatedBalancedAmounts(formData.provisionType, formData.activeSide,
                                       formData.amountA, formData.amountB,
                                       Decimals(formData.tokenA), Decimals(formData.tokenB),
                                       sim)
               = [amountA |-> formData.amountA, amountB |-> formData.amountB]
        /\ ~AutoUpdatePending

\* a result is held in Initial or Arbitrary mode whose units are not the
\* amounts the form shows
C14_Witness ==
    /\ formData.provisionType \in {"Initial", "Arbitrary"}
    /\ lpSimulation.present
    /\ \/ formatAmount(lpSimulation.tokenAUnits, Decimals(formData.tokenA)) # formData.amountA
       \/ formatAmount(lpSimulation.tokenBUnits, Decimals(formData.tokenB)) # formData.amountB

\* a step taken by the user of the liquidity form
LiquidityUserAction ==
    \/ \E side \in Sides, asset \in Tokens \cup {NoToken} : handleTokenChange(side, asset)
    \/ \E side \in Sides, amount \in UserAmounts : handleAmountChange(side, amount)
    \/ \E type \in ProvisionTypes : setProvisionType(type)
    \/ \E w \in {""} \cup Wallets : WalletChange(w)

\* the error of the current simulation is a pool-already-exists message that
\* carries an address, and the mode is Initial
PoolExistsInInitial ==
    /\ formData.provisionType = "Initial"
    /\ simulationError.present
    /\ simulationError.hasData
    /\ simulationError.shape = "standard"
    /\ simulationError.addr # ""

\* C15: a simulation error changes the form state only in Initial mode and
\* only when its message has the pool-already-exists shape with an address;
\* with any other error no step but a user action or the reconciliation of a
\* result changes formData.
C15_OnlyPoolExistsErrorChangesForm ==
    [][/\ AlreadyExists => PoolExistsInInitial
       /\ (simulationError.present /\ ~PoolExistsInInitial
           /\ ~LiquidityUserAction /\ ~AutoUpdate) => formData' = formData]_vars

\* an error of another shape and an error outside Initial mode are shown
C15_Witness ==
    /\ simulationError.present
    /\ ~PoolExistsInInitial
    /\ simulationError.hasData
    /\ Settled

\* C16: apart from the user's mode selection, the mode changes only from
\* Initial to Balanced in the already-exists effect and to Initial in an
\* asset change: no other step sets Arbitrary, or Balanced from another mode.
C16_AutomaticModeChanges ==
    [][(formData'.provisionType # formData.provisionType
        /\ ~(\E type \in ProvisionTypes : setProvisionType(type))) =>
          \/ /\ AlreadyExists
             /\ PoolExistsInInitial
             /\ formData'.provisionType = "Balanced"
          \/ /\ \E side \in Sides, asset \in Tokens : handleTokenChange(side, asset)
             /\ formData'.provisionType = "Initial"]_vars

\* the form has left Initial mode without a mode selection by the user
C16_Witness ==
    /\ formData.provisionType = "Balanced"
    /\ formData.provisionHistory = <<"Balanced">>
    /\ formData.poolAddress # NoPool

\* C17: on the automatic transition from Initial to Balanced activeSide
\* becomes firstChangedSide when that is known; otherwise A if amountA is
\* non-empty, else B if amountB is non-empty, else null.
C17_ActiveSideOnAutomaticTransition ==
    [][AlreadyExists =>
         /\ formData.firstChangedSide # Null =>
              formData'.activeSide = formData.firstChangedSide
         /\ (formData.firstChangedSide = Null /\ formData.amountA # <<>>) =>
              formData'.activeSide = "A"
         /\ (formData.firstChangedSide = Null /\ formData.amountA = <<>>
             /\ formData.amountB # <<>>) => formData'.activeSide = "B"
         /\ (formData.firstChangedSide = Null /\ formData.amountA = <<>>
             /\ formData.amountB = <<>>) => formData'.activeSide = Null]_vars

\* the automatic transition has made B, the side typed first, the active
\* side although amountA is non-empty
C17_Witness ==
    /\ formData.provisionType = "Balanced"
    /\ formData.provisionHistory = <<"Balanced">>
    /\ formData.firstChangedSide = "B"
    /\ formData.activeSide = "B"
    /\ formData.amountA # <<>>
    /\ lastTyped = "A"

\* C18: an amount edit on side sets activeSide to side in Balanced mode and
\* leaves it unchanged in Initial and Arbitrary; in every mode it sets
\* firstChangedSide to side only if firstChangedSide is null and the value is
\* non-empty, so a known firstChangedSide is never changed by an amount edit.
C18_AmountEditSides ==
    [][\A side \in Sides, amount \in UserAmounts :
         handleAmountChange(side, amount) =>
           /\ formData.provisionType = "Balanced" => formData'.activeSide = side
           /\ formData.provisionType # "Balanced" =>
                formData'.activeSide = formData.activeSide
           /\ (formData.firstChangedSide = Null /\ amount # <<>>) =>
                formData'.firstChangedSide = side
           /\ ~(formData.firstChangedSide = Null /\ amount # <<>>) =>
                formData'.firstChangedSide = formData.firstChangedSide]_vars

\* the side typed first stays the first changed side after an edit of the
\* other side, and an edit in Balanced mode has moved the active side
C18_Witness ==
    /\ formData.provisionType = "Balanced"
    /\ formData.firstChangedSide = "A"
    /\ formData.activeSide = "B"
    /\ lastTyped = "B"
    /\ formData.amountA # <<>>
    /\ formData.amountB # <<>>

\* C19: a manual mode switch, from any mode to any mode, changes only
\* provisionType and the mode history, which holds the new mode afterwards:
\* tokens, amounts, poolAddress, activeSide and firstChangedSide are unchanged.
C19_ModeSwitchFrame ==
    [][\A type \in ProvisionTypes :
         setProvisionType(type) =>
           /\ formData'.provisionType = type
           /\ Includes(formData'.provisionHistory, type)
           /\ formData'.tokenA = formData.tokenA
           /\ formData'.tokenB = formData.tokenB
           /\ formData'.amountA = formData.amountA
           /\ formData'.amountB = formData.amountB
           /\ formData'.poolAddress = formData.poolAddress
           /\ formData'.activeSide = formData.activeSide
           /\ formData'.firstChangedSide = formData.firstChangedSide]_vars

\* the user has switched a Balanced form that has an active side and a
\* non-empty amount to Arbitrary mode
C19_Witness ==
    /\ formData.provisionType = "Arbitrary"
    /\ Includes(formData.provisionHistory, "Arbitrary")
    /\ Includes(formData.provisionHistory, "Balanced")
    /\ formData.activeSide # Null
    /\ formData.firstChangedSide # Null
    /\ formData.amountA # <<>> \/ formData.amountB # <<>>

\* C20: the amount pair is discarded when the user switches mode: after a
\* user-initiated mode switch both amount fields are empty.
C20_ModeSwitchDiscardsAmounts ==
    [][(\E type \in ProvisionTypes : setProvisionType(type)) =>
         (formData'.amountA = <<>> /\ formData'.amountB = <<>>)]_vars

(***************************************************************************)
(* Decimal strings as numbers                                              *)
(***************************************************************************)
\* the characters of s that are not "."
RECURSIVE WithoutDots(_)
WithoutDots(s) ==
    IF s = <<>> THEN <<>>
    ELSE IF Head(s) = "." THEN WithoutDots(Tail(s)) ELSE <<Head(s)>> \o WithoutDots(Tail(s))

Signed(s) == s # <<>> /\ s[1] = "-"

Unsigned(s) == IF Signed(s) THEN Tail(s) ELSE s

\* number of digits after the point
FractionLen(s) == IF DotIndex(s) = 0 THEN 0 ELSE Len(s) - DotIndex(s)

\* digits with at most one point; a sign is followed by an integer digit
WellFormed(s) ==
    /\ Len(WithoutDots(Unsigned(s))) >= Len(Unsigned(s)) - 1
    /\ \A i \in 1..Len(WithoutDots(Unsigned(s))) : WithoutDots(Unsigned(s))[i] \in DigitSet
    /\ Signed(s) => (Unsigned(s) # <<>> /\ Unsigned(s)[1] \in DigitSet)

\* the number s denotes is Numerator(s) / 10^FractionLen(s)
Numerator(s) ==
    IF Signed(s) THEN 0 - DigitsToNat(WithoutDots(Unsigned(s)))
    ELSE DigitsToNat(WithoutDots(Unsigned(s)))

\* the number s denotes, times 10^d, cut toward zero to an integer
TruncatedUnits(s, d) == TruncDiv(Numerator(s) * Pow10(d), Pow10(FractionLen(s)))

\* C21: for a valid decimal string v and a decimal count d,
\* formatAmount(floatToBigNumber(v, d), d) is a decimal string that is
\* numerically equal to v truncated to d fractional digits; this includes
\* values below 1, d = 0 and negative values.
C21_RoundTripTruncates ==
    (conv.stage = "text" /\ WellFormed(conv.value)) =>
        /\ WellFormed(conv.text)
        /\ Numerator(conv.text) * Pow10(conv.decimals)
             = TruncatedUnits(conv.value, conv.decimals) * Pow10(FractionLen(conv.text))

SwapFormState(st) ==
    <<st.offerAsset, st.askAsset, st.offerAmount, st.askAmount, st.simulationResult>>

\* C23: a failed submission leaves the form intact: after a rejected swap
\* submit the assets, both amounts and the simulation result are as before,
\* and no step of handleProvide changes the liquidity form or its result;
\* of the steps of a submission only the successful swap submit clears the
\* amounts and the simulation result.
C23_FailedSubmitKeepsForm ==
    [][/\ (handleSwap \/ BuildSwapTransactionResolves \/ SwapSubmitRejects) =>
            SwapFormState(swap') = SwapFormState(swap)
       /\ SendTransactionResolves =>
            (swap'.offerAmount = <<>> /\ swap'.askAmount = <<>>
             /\ ~swap'.simulationResult.present
             /\ swap'.offerAsset = swap.offerAsset /\ swap'.askAsset = swap.askAsset)
       /\ ((\E matchedRouter \in BOOLEAN : handleProvide(matchedRouter))
           \/ BuildTwoSideDepositTxResolves \/ ProvideSent \/ ProvideRejects) =>
            (formData' = formData /\ lpSimulation' = lpSimulation)]_vars

\* a swap submit has failed and the form still shows its amounts and result
C23_Witness ==
    /\ swapTx.toast = "Transaction Failed"
    /\ swapTx.pc = "idle"
    /\ ~swap.loadingTx
    /\ swap.simulationResult.present
    /\ swap.offerAmount # <<>>
    /\ swap.askAmount # <<>>

\* the amounts of form f are complete for its mode: both greater than 0 in
\* Initial and Arbitrary, at least one greater than 0 in Balanced
AmountsComplete(f) ==
    IF f.provisionType = "Balanced"
    THEN \/ Positive(f.amountA, Decimals(f.tokenA))
         \/ Positive(f.amountB, Decimals(f.tokenB))
    ELSE /\ Positive(f.amountA, Decimals(f.tokenA))
         /\ Positive(f.amountB, Decimals(f.tokenB))

\* a business rule is violated: a token is missing, no wallet is connected
\* or the amounts are incomplete for the active mode
RuleViolated ==
    \/ formData.tokenA = NoToken
    \/ formData.tokenB = NoToken
    \/ wallet = ""
    \/ ~AmountsComplete(formData)

ValidationMessages ==
    {"Please select both tokens (A and B).", "Please connect your wallet.",
     "Both token amounts must be greater than 0."}

\* C24: a business-rule violation blocks only the submit: handleProvide then
\* sets a validation message and does not go on to sendTransaction, and it
\* leaves the simulation pipeline alone; the amount rule it applies is the
\* one of the active mode, so it reports a validation message only when a
\* rule is violated.
C24_ViolationBlocksOnlySubmit ==
    [][\A matchedRouter \in BOOLEAN :
         handleProvide(matchedRouter) =>
           /\ RuleViolated => (provide'.pc = "idle" /\ provide'.error \in ValidationMessages)
           /\ provide'.error \in ValidationMessages => RuleViolated
           /\ UNCHANGED <<cache, fetchOrder, timer, deb>>]_vars

\* the notification the outcome of a finished status query calls for: the
\* status-check-failed one after a polling error or a timeout, else the one
\* of the exit code
ExpectedToast ==
    IF poll.pc = "error" \/ poll.aborted THEN "Transaction status check failed"
    ELSE IF poll.exitCode = "failed" THEN "Transaction Failed"
    ELSE IF poll.exitCode = "swap_ok" THEN "Transaction Successful"
    ELSE "Transaction Status"

\* C25: every outcome of status polling is notified by exactly one toast of
\* the kind of the outcome: status-check-failed for a polling error or a
\* timeout, failure for exit code "failed", success for "swap_ok",
\* informational for any other exit code.
C25_OneNotificationPerOutcome ==
    (poll.pc \in {"success", "error"} /\ poll.toasts # <<>>) =>
        poll.toasts = <<ExpectedToast>>

\* the request sent in this step is a Balanced one
BalancedRequestIssued == RequestIssued /\ IssuedKey.provisionType = "Balanced"

\* what the request sent in this step hands to the service
IssuedCall == queryFn(IssuedKey).call

\* the side whose units the request sent in this step carries
CarriedSide == IF TruthyU(IssuedCall.tokenAUnits) THEN "A" ELSE "B"

\* C26: every Balanced simulation request sent to the service carries a pool
\* address and exactly one of tokenAUnits / tokenBUnits, and the side it
\* carries is the active side with the amount the form holds for it.
C26_BalancedRequestCarriesActiveSide ==
    [][BalancedRequestIssued =>
         /\ IssuedCall.poolAddress # NoPool
         /\ TruthyU(IssuedCall.tokenAUnits) # TruthyU(IssuedCall.tokenBUnits)
         /\ CarriedSide = formData'.activeSide
         /\ CarriedSide = "A" =>
              IssuedCall.tokenAUnits = UnitsOf(formData'.amountA, Decimals(formData'.tokenA))
         /\ CarriedSide = "B" =>
              IssuedCall.tokenBUnits = UnitsOf(formData'.amountB, Decimals(formData'.tokenB))]_vars

\* the query function runs in this step for a key in mode type
QueryFnRuns(type) ==
    /\ route = "liquidity"
    /\ NeedsFetch(cache, CurKey, CurKey')
    /\ CurKey'.provisionType = type

\* C27: in Arbitrary mode with a known pool address and both amounts present
\* the query function sends the service a request carrying the pool address
\* and both unit amounts; without a pool address it fails locally with an
\* error and sends nothing.
C27_ArbitraryRequest ==
    [][QueryFnRuns("Arbitrary") =>
         IF formData'.poolAddress # NoPool
         THEN /\ RequestIssued
              /\ IssuedCall.poolAddress = formData'.poolAddress
              /\ IssuedCall.tokenAUnits = UnitsOf(deb'.A, Decimals(formData'.tokenA))
              /\ IssuedCall.tokenBUnits = UnitsOf(deb'.B, Decimals(formData'.tokenB))
         ELSE /\ ~RequestIssued
              /\ EntryOf(cache', CurKey').error = LocalError]_vars

\* the pool address a pool-already-exists message names: the address of the
\* shape 'already exists: <addr>', the first listed address, trimmed, of the
\* shape 'already exists for selected type of router: [<addr1>, ...]', none
\* for any other error
NamedPool(err) ==
    IF err.shape = "standard" THEN err.addr
    ELSE IF err.shape = "alternate" /\ Len(err.listed) > 0
    THEN LET inner == SelectSeq(err.listed[1], LAMBDA c : c # " ")
         IN IF inner = <<>> THEN "" ELSE inner[1]
    ELSE ""

\* C28: pool-already-exists detection accepts exactly the two message shapes:
\* the form goes from Initial to Balanced only on an error of one of them that
\* names an address, and then takes that address (for the list shape the
\* first one, trimmed); an error of neither shape or with an empty address
\* leaves the mode as it is.
C28_TwoShapesDetected ==
    [][/\ AlreadyExists =>
            /\ simulationError.shape \in {"standard", "alternate"}
            /\ NamedPool(simulationError) # ""
            /\ formData'.provisionType = "Balanced"
            /\ formData'.poolAddress = NamedPool(simulationError)
       /\ (simulationError.present /\ NamedPool(simulationError) = "") =>
            formData'.provisionType = formData.provisionType
       /\ (simulationError.present /\ NamedPool(simulationError) # ""
           /\ formData.provisionType = "Initial") =>
            formData'.poolAddress = NamedPool(simulationError)]_vars

\* an Initial request was answered with the list shape naming " P1 " first and
\* P2 second, and the form is in Balanced mode with pool P1
C28_Witness ==
    /\ formData.provisionType = "Balanced"
    /\ formData.poolAddress = "P1"
    /\ \E e \in cache :
         /\ e.key.provisionType = "Initial"
         /\ e.key.poolAddress = NoPool
         /\ e.error.shape = "alternate"
         /\ Len(e.error.listed) = 2

\* form f holds both tokens and nothing typed since the start or since the
\* reset of a token switch: Initial mode, no pool, no amounts, no first side
AwaitingAmounts(f) ==
    /\ f.tokenA # NoToken
    /\ f.tokenB # NoToken
    /\ f.provisionType = "Initial"
    /\ f.poolAddress = NoPool
    /\ f.amountA = <<>>
    /\ f.amountB = <<>>
    /\ f.firstChangedSide = Null

\* C29: after a token switch has reset the form to Initial with empty amounts
\* no simulation request is issued until the user enters new amounts: no step
\* that leaves the form reset and empty sends a request, the step of the
\* switch included.
C29_NoRequestAfterTokenSwitch ==
    [][AwaitingAmounts(formData') => ~RequestIssued]_vars

\* the swap inputs are insufficient for a simulation
InsufficientInputs ==
    \/ wallet = ""
    \/ swap.offerAsset = NoToken
    \/ swap.askAsset = NoToken
    \/ (~Truthy(swap.offerAmount) /\ ~Truthy(swap.askAmount))

\* a simulation that has not been superseded is in flight
LiveSimulation == \E rq \in swInFlight : ~rq.isCancelled

\* C30: in the swap form loadingSimulation is true only while a simulation
\* that has not been superseded is in flight (or the effect that starts or
\* supersedes it is about to run), and when the inputs have become
\* insufficient it returns to false without further user input.
C30_LoadingEndsWhenInputsInsufficient ==
    /\ [](swap.loadingSimulation => (LiveSimulation \/ SwapEffectPending))
    /\ (InsufficientInputs /\ swap.loadingSimulation) ~> ~swap.loadingSimulation

\* C31: handleProvide sends a liquidity transaction only with a minLpOut
\* taken from a simulation computed for the amounts and tokens currently in
\* the form: when the click goes on to build the transaction, the simulation
\* whose minLpUnits it takes is the answer to the request of the form's
\* current inputs.
C31_SubmitUsesCurrentSimulation ==
    [][\A matchedRouter \in BOOLEAN :
         (handleProvide(matchedRouter) /\ provide'.pc = "building") =>
            /\ provide'.tx.minLpOut = lpSimulation.minLpUnits
            /\ provide'.tx.simulated = queryFn(CurrentInputsKey).call]_vars

\* C32: handleSwap builds and sends a transaction only when a simulation
\* result is stored and a wallet is connected, and that result is the answer
\* to the request of the assets and amounts the form holds: once the effect
\* of a change of asset or amount has run, a result that is stored is one
\* computed for the new inputs.
C32_SwapUsesCurrentSimulation ==
    [][/\ handleSwap =>
            /\ swap.simulationResult.present
            /\ wallet # ""
            /\ swap.simulationResult.request = SwapDeps(swap, wallet)
       /\ (swap'.simulationResult.present /\ SwapDeps(swap', wallet') = swDeps') =>
            swap'.simulationResult.request = SwapDeps(swap', wallet')]_vars

\* the Swap button was pressed on a result computed for the inputs shown,
\* after the user had typed the ask amount into a form with an offer amount
C32_Witness ==
    /\ swapTx.pc = "building"
    /\ swap.loadingTx
    /\ swap.simulationResult.present
    /\ swap.simulationResult.request = SwapDeps(swap, wallet)
    /\ Truthy(swap.offerAmount)
    /\ Truthy(swap.askAmount)

\* the side whose units the request call gives the service
InputSide(call) == IF TruthyU(call.tokenAUnits) THEN "A" ELSE "B"

\* the sides whose amount this step changes
OverwrittenSides ==
    {side \in Sides : IF side = "A" THEN formData'.amountA # formData.amountA
                      ELSE formData'.amountB # formData.amountB}

\* C33: in Balanced mode the side whose amount was sent as the simulation
\* input and the side that reconciliation overwrites from the result are
\* always different sides.
C33_InputSideNotOverwritten ==
    [][AutoUpdate => InputSide(lpSimulation.request) \notin OverwrittenSides]_vars

\* the swap hook holds its initial state and no transaction details
SwapIsReset ==
    /\ swap = initialState
    /\ assets.allAssets = {}
    /\ swapTx.transactionDetails = NoDetails

\* a step taken without the user: an effect, a simulation or an asset fetch
\* that settles
SwapBackgroundStep ==
    \/ SimulationEffect
    \/ SwapSettles
    \/ \E w \in Wallets : LoadAssetsResolves(w) \/ LoadAssetsRejects(w)

\* C34: when the wallet disconnects the swap state is reset to the initial
\* state and the transaction details are cleared, and while no wallet is
\* connected no effect, simulation or asset fetch that settles writes into
\* the state.
C34_DisconnectResetsAndStays ==
    [][/\ SwapWalletChange("") => SwapIsReset'
       /\ (wallet = "" /\ SwapIsReset /\ SwapBackgroundStep) => SwapIsReset']_vars

\* C35: once a submit attempt (handleSwap, handleProvide) has finished, sent,
\* rejected by the wallet, failed while being built or stopped by
\* validation, loadingTx is false: it is true only while an attempt is
\* under way
C35_LoadingTxEndsFalse ==
    /\ swapTx.pc = "idle" => ~swap.loadingTx
    /\ provide.pc = "idle" => ~provide.loadingTx

\* a swap submit has been rejected by the wallet or has failed
C35_Witness ==
    /\ swapTx.pc = "idle"
    /\ swapTx.toast = "Transaction Failed"
    /\ ~swap.loadingTx

\* a provide attempt has failed after it set loadingTx
C35_WitnessProvide ==
    /\ provide.pc = "idle"
    /\ provide.error = "Failed to provide liquidity"
    /\ ~provide.loadingTx

\* C36: simulateSwap asks for a forward simulation from the offer units when
\* offerAmount is non-empty, also when askAmount is non-empty too; for a
\* reverse simulation from the ask units when only askAmount is non-empty;
\* and throws, with no service call, when both amounts are empty or an
\* asset address is missing
C36_DirectionByPresentAmount ==
    \A rq \in swInFlight :
        LET d == rq.request
            missing == d.offerAsset = NoToken \/ d.askAsset = NoToken
            offerOk == floatToBigNumber(d.offerAmount, Decimals(d.offerAsset)).ok
            askOk == floatToBigNumber(d.askAmount, Decimals(d.askAsset)).ok
        IN /\ missing => rq.call.kind = "throw"
           /\ (~Truthy(d.offerAmount) /\ ~Truthy(d.askAmount)) => rq.call.kind = "throw"
           /\ Truthy(d.offerAmount) => rq.call.kind # "simulateReverseSwap"
           /\ ~Truthy(d.offerAmount) => rq.call.kind # "simulateSwap"
           /\ (~missing /\ Truthy(d.offerAmount) /\ offerOk) =>
                 /\ rq.call.kind = "simulateSwap"
                 /\ rq.call.units = UnitsOf(d.offerAmount, Decimals(d.offerAsset))
           /\ (~missing /\ ~Truthy(d.offerAmount) /\ Truthy(d.askAmount) /\ askOk) =>
                 /\ rq.call.kind = "simulateReverseSwap"
                 /\ rq.call.units = UnitsOf(d.askAmount, Decimals(d.askAsset))

\* a call with both amounts non-empty has gone out as a forward simulation
C36_Witness ==
    \E rq \in swInFlight :
        /\ rq.request.offerAmount = <<"5">>
        /\ rq.request.askAmount = <<"1">>
        /\ rq.request.offerAsset = "T1"
        /\ rq.request.askAsset = "T2"
        /\ rq.call = [kind |-> "simulateSwap", units |-> <<"5", "0">>]

\* C37: the step in which sendTransaction resolves leaves both amounts empty
\* and the stored simulation result null, and records transaction details
\* with the queryId of the transaction that was sent, the router address of
\* the simulation it was built from and the wallet address it was built
\* for; the step in which a submit fails records no details
C37_DetailsMatchSentTransaction ==
    [][/\ SendTransactionResolves =>
            /\ swap'.offerAmount = <<>>
            /\ swap'.askAmount = <<>>
            /\ swap'.simulationResult = NoSimulation
            /\ swapTx'.transactionDetails # NoDetails
            /\ swapTx'.transactionDetails.queryId = swapTx.tx.queryId
            /\ swapTx'.transactionDetails.routerAddress = swapTx.tx.simulation.routerAddress
            /\ swapTx'.transactionDetails.routerAddress
                  = RouterOf(swapTx.tx.simulation.request)
            /\ swapTx'.transactionDetails.ownerAddress = swapTx.tx.walletAddress
            /\ wallet = swapTx.tx.walletAddress
                  => swapTx'.transactionDetails.ownerAddress = wallet
       /\ SwapSubmitRejects => swapTx'.transactionDetails = swapTx.transactionDetails]_vars

\* a submit has been sent: the details carry its queryId and the wallet
\* that is connected
C37_Witness ==
    /\ swapTx.pc = "idle"
    /\ swapTx.toast = "Transaction Sent"
    /\ swapTx.transactionDetails.queryId = swapTx.clock
    /\ swapTx.transactionDetails.ownerAddress = wallet
    /\ swapTx.transactionDetails.routerAddress \in {"R1", "R2"}
    /\ swap.offerAmount = <<>>
    /\ swap.askAmount = <<>>
    /\ ~swap.simulationResult.present

====
